---- MODULE Spec2Model ----
(***************************************************************************)
(* Model of the ChirpStack UDP forwarder (src/src/forwarder.rs and the     *)
(* codec of src/src/structs.rs): one configured server, its supervisor     *)
(* loop (forwarder::start) and the three activities of a forwarder         *)
(* instance: keepalive (pull_data_loop), udp-receive (udp_receive_loop)    *)
(* and events (events_loop).  Every operation made under one of the        *)
(* per-field mutexes of State is one atomic step; steps that touch only    *)
(* data local to one thread are merged with the next shared operation.     *)
(***************************************************************************)
EXTENDS Integers, Sequences, FiniteSets, TLC

(* ------------------------------ bounds --------------------------------- *)

\* Random u16 tokens are drawn from TokenStep * (0..MaxToken).
MaxToken == 1
\* keepalive_max_failures is configured in 0..MaxFailures.
MaxFailures == 1
\* The u32 counters push_data_sent, push_data_acked and rxfw are kept <= MaxCount.
MaxCount == 2

(* ------------------------- program constants --------------------------- *)

PROTOCOL_VERSION == 2
ID_PUSH_DATA == 0
ID_PUSH_ACK == 1
ID_PULL_DATA == 2
ID_PULL_RESP == 3
ID_PULL_ACK == 4
ID_TX_ACK == 5
\* udp_receive_loop drops datagrams shorter than MinDatagram bytes.
MinDatagram == 4
\* PullResp::from_bytes wants at least MinPullResp bytes.
MinPullResp == 5
\* Spacing of the sampled tokens: both bytes of a token differ between samples.
TokenStep == 129

TokenSet == {TokenStep * i : i \in 0..MaxToken}
MaxMissed == MaxFailures + 1
\* The identifier helpers::get_gateway_id obtained at startup.
GatewayId == <<1, 2, 3, 4, 5, 6, 7, 8>>
\* Option<T>: None is <<>>, Some(v) is <<v>>.
None == <<>>
Some(v) == <<v>>

(* ------------------------------- codec --------------------------------- *)

\* u16::to_be_bytes
ToBeBytes(t) == <<t \div 256, t % 256>>

\* u16::from_be_bytes(b[1..3])
FromBeBytes(b) == b[2] * 256 + b[3]

\* Result<T, E>, and the third outcome of a call: a panic unwinding the thread.
Err == [ok |-> FALSE, panic |-> FALSE]
Panic == [ok |-> FALSE, panic |-> TRUE]
Ok(v) == [ok |-> TRUE, panic |-> FALSE, v |-> v]

\* A received datagram d is [b, size, json]: b holds its first min(size, 4)
\* bytes, size is the number of bytes recv returned, and json stands for the
\* bytes from offset 4 on (NoJson when there are none).
NoJson == [kind |-> "none"]

\* PushAck::from_bytes without the check of the length.
PushAck_from_bytes_AnyLength(d) ==
    IF d.size < 4 THEN Err
    ELSE IF d.b[1] # PROTOCOL_VERSION THEN Err
    ELSE IF d.b[4] # ID_PUSH_ACK THEN Err
    ELSE Ok([random_token |-> FromBeBytes(d.b)])

\* PushAck::from_bytes
PushAck_from_bytes(d) ==
    IF d.size # 4 THEN Err
    ELSE IF d.b[1] # PROTOCOL_VERSION THEN Err
    ELSE IF d.b[4] # ID_PUSH_ACK THEN Err
    ELSE Ok([random_token |-> FromBeBytes(d.b)])

\* PullAck::from_bytes without the check of the protocol version.
PullAck_from_bytes_AnyVersion(d) ==
    IF d.size # 4 THEN Err
    ELSE IF d.b[4] # ID_PULL_ACK THEN Err
    ELSE Ok([random_token |-> FromBeBytes(d.b)])

\* PullAck::from_bytes
PullAck_from_bytes(d) ==
    IF d.size # 4 THEN Err
    ELSE IF d.b[1] # PROTOCOL_VERSION THEN Err
    ELSE IF d.b[4] # ID_PULL_ACK THEN Err
    ELSE Ok([random_token |-> FromBeBytes(d.b)])

\* PullData::to_bytes
PullData_to_bytes(pd) ==
    <<PROTOCOL_VERSION>> \o ToBeBytes(pd.random_token) \o <<ID_PULL_DATA>> \o pd.gateway_id

\* PushData_header with the gateway identifier before the identifier of the frame.
PushData_header_IdLast(pd) ==
    <<PROTOCOL_VERSION>> \o ToBeBytes(pd.random_token) \o pd.gateway_id \o <<ID_PUSH_DATA>>

\* The 12-byte header PushData::to_bytes puts before the JSON payload.
PushData_header(pd) ==
    <<PROTOCOL_VERSION>> \o ToBeBytes(pd.random_token) \o <<ID_PUSH_DATA>> \o pd.gateway_id

\* TxAck_header with the two bytes of the token in little-endian order.
TxAck_header_LittleEndian(ta) ==
    <<PROTOCOL_VERSION, ta.random_token % 256, ta.random_token \div 256, ID_TX_ACK>>
        \o ta.gateway_id

\* The 12-byte header TxAck::to_bytes puts before the JSON payload.
TxAck_header(ta) ==
    <<PROTOCOL_VERSION>> \o ToBeBytes(ta.random_token) \o <<ID_TX_ACK>> \o ta.gateway_id

(* ------------------------- datarate and txpk --------------------------- *)
\* Strings that are parsed are sequences of one-character strings.  Numbers
\* stay below 2^31, so that no u32 of the program overflows in the model.

Digits == <<"0", "1", "2", "3", "4", "5", "6", "7", "8", "9">>
Letters == {"S", "F", "B", "W", "A", "k"}

IsDigit(c) == \E i \in 1..10 : Digits[i] = c

DigitVal(c) == (CHOOSE i \in 1..10 : Digits[i] = c) - 1

\* char::is_alphabetic
IsAlphabetic(c) == c \in Letters

\* str::split(char::is_alphabetic): every alphabetic character ends a segment.
SplitAlphabetic(s) ==
    LET F[i \in 0..Len(s)] ==
            IF i = 0 THEN << <<>> >>
            ELSE IF IsAlphabetic(s[i]) THEN Append(F[i - 1], <<>>)
            ELSE [F[i - 1] EXCEPT ![Len(F[i - 1])] = Append(@, s[i])]
    IN  F[Len(s)]

DecVal(ds) ==
    LET F[i \in 0..Len(ds)] == IF i = 0 THEN 0 ELSE F[i - 1] * 10 + DigitVal(ds[i])
    IN  F[Len(ds)]

\* str::parse::<u32>, for at most 9 digits: an optional '+', then digits only.
ParseU32(seg) ==
    LET ds == IF Len(seg) > 0 /\ seg[1] = "+" THEN Tail(seg) ELSE seg
    IN  IF Len(ds) = 0 \/ (\E i \in 1..Len(ds) : ~IsDigit(ds[i])) THEN Err
        ELSE Ok(DecVal(ds))

\* u64 as u32: the low 32 bits, taken as two 16-bit halves.
AsU32(n) == ((n \div 65536) % 65536) * 65536 + (n % 65536)

LoRa(sf, bw) == [kind |-> "LoRa", sf |-> sf, bw |-> bw]
FSK(bitrate) == [kind |-> "FSK", bitrate |-> bitrate]

\* A JSON value v is [t |-> "str", s], [t |-> "num", neg, frac, n] (the number
\* n, negated when neg, with a fractional part when frac) or [t |-> "null"].
JStr(s) == [t |-> "str", s |-> s]
JNum(neg, frac, n) == [t |-> "num", neg |-> neg, frac |-> frac, n |-> n]
JNull == [t |-> "null"]

\* Number::as_u64
AsU64(v) == IF v.neg \/ v.frac THEN None ELSE Some(v.n)

\* impl Deserialize for DataRate
DataRate_deserialize(v) ==
    IF v.t = "str" THEN
        LET s == SplitAlphabetic(v.s) IN
        IF Len(s) # 5 THEN Err
        ELSE IF ~ParseU32(s[3]).ok THEN Err
        ELSE IF ~ParseU32(s[5]).ok THEN Err
        ELSE Ok(LoRa(ParseU32(s[3]).v, ParseU32(s[5]).v * 1000))
    ELSE IF v.t = "num" THEN
        IF AsU64(v) = None THEN Panic ELSE Ok(FSK(AsU32(AsU64(v)[1])))
    ELSE Err

\* impl Deserialize for Modulation
Modulation_deserialize(s) == IF s \in {"LORA", "FSK"} THEN Ok(s) ELSE Err

\* The JSON after the 4-byte header is [kind |-> "garbage"] (no JSON object
\* with a txpk) or [kind |-> "txpk", txpk |-> j], j the members of the txpk
\* object in the order of the fields of TXPK; data_ok tells whether the data
\* member is valid standard base64.
Garbage == [kind |-> "garbage"]

\* serde_json::from_slice::<PullRespPayload>
PullRespPayload_deserialize(json) ==
    IF json.kind # "txpk" THEN Err
    ELSE LET j == json.txpk
             m == Modulation_deserialize(j.modu)
             d == DataRate_deserialize(j.datr)
         IN  IF ~m.ok THEN Err
             ELSE IF ~d.ok THEN d
             ELSE Ok([txpk |-> [imme |-> j.imme, tmst |-> j.tmst, tmms |-> j.tmms,
                                modu |-> m.v, datr |-> d.v, data_ok |-> j.data_ok]])

Txpk(modu, datr, imme, tmst, tmms, data_ok) ==
    [kind |-> "txpk",
     txpk |-> [imme |-> imme, tmst |-> tmst, tmms |-> tmms, modu |-> modu,
               datr |-> datr, data_ok |-> data_ok]]

SF7BW125 == JStr(<<"S", "F", "7", "B", "W", "1", "2", "5">>)

\* The JSON bodies of the PULL_RESP datagrams the server sends in the model.
PullRespJsons ==
    {Garbage,
     Txpk("LORA", SF7BW125, None, Some(5000000), None, TRUE),
     Txpk("FSK", JNum(FALSE, FALSE, 50000), Some(TRUE), None, None, TRUE),
     Txpk("FSK", JNum(TRUE, FALSE, 1), Some(TRUE), None, None, TRUE),
     Txpk("LORA", JNum(FALSE, FALSE, 50000), Some(TRUE), None, None, TRUE),
     Txpk("FSK", SF7BW125, Some(TRUE), None, None, TRUE),
     Txpk("LORA", SF7BW125, None, None, None, TRUE),
     Txpk("LORA", SF7BW125, Some(FALSE), None, Some(1000), FALSE)}

\* serde_json::from_slice of each of these bodies, worked out once.
PullRespPayloads == [j \in PullRespJsons |-> PullRespPayload_deserialize(j)]

\* PullResp::from_bytes
PullResp_from_bytes(d) ==
    IF d.size < MinPullResp THEN Err
    ELSE IF d.b[1] # PROTOCOL_VERSION THEN Err
    ELSE IF d.b[4] # ID_PULL_RESP THEN Err
    ELSE LET pl == PullRespPayloads[d.json]
         IN  IF ~pl.ok THEN pl
             ELSE Ok([random_token |-> FromBeBytes(d.b), payload |-> pl.v])

\* u32::to_be_bytes
U32ToBeBytes(n) ==
    <<(n \div 16777216) % 256, (n \div 65536) % 256, (n \div 256) % 256, n % 256>>

\* TXPK_timing with tmms taken before tmst.
TXPK_timing_GpsFirst(txpk) ==
    IF txpk.imme = Some(TRUE) THEN Some([kind |-> "Immediately"])
    ELSE IF txpk.tmms # None
         THEN Some([kind |-> "GpsEpoch", seconds |-> txpk.tmms[1] \div 1000,
                    nanos |-> (txpk.tmms[1] % 1000) * 1000000])
    ELSE IF txpk.tmst # None THEN Some([kind |-> "Delay", seconds |-> 0, nanos |-> 0])
    ELSE None

\* The timing chosen by TXPK::to_proto, None when there is no timing information.
TXPK_timing(txpk) ==
    IF txpk.imme = Some(TRUE) THEN Some([kind |-> "Immediately"])
    ELSE IF txpk.tmst # None THEN Some([kind |-> "Delay", seconds |-> 0, nanos |-> 0])
    ELSE IF txpk.tmms # None
         THEN Some([kind |-> "GpsEpoch", seconds |-> txpk.tmms[1] \div 1000,
                    nanos |-> (txpk.tmms[1] % 1000) * 1000000])
    ELSE None

\* TXPK::to_proto that takes the datarate as it comes, whatever the modulation.
TXPK_to_proto_AnyDatarate(txpk, downlink_id, gateway_id) ==
    IF TXPK_timing(txpk) = None THEN Err
    ELSE IF ~txpk.data_ok THEN Err
    ELSE Ok([downlink_id |-> downlink_id,
             gateway_id |-> gateway_id,
             modulation |-> txpk.datr,
             timing |-> TXPK_timing(txpk)[1],
             context |-> IF txpk.tmst # None THEN U32ToBeBytes(txpk.tmst[1]) ELSE <<>>])

\* TXPK::to_proto
TXPK_to_proto(txpk, downlink_id, gateway_id) ==
    IF txpk.modu = "LORA" /\ txpk.datr.kind # "LoRa" THEN Err
    ELSE IF txpk.modu = "FSK" /\ txpk.datr.kind # "FSK" THEN Err
    ELSE IF TXPK_timing(txpk) = None THEN Err
    ELSE IF ~txpk.data_ok THEN Err
    ELSE Ok([downlink_id |-> downlink_id,
             gateway_id |-> gateway_id,
             modulation |-> txpk.datr,
             timing |-> TXPK_timing(txpk)[1],
             context |-> IF txpk.tmst # None THEN U32ToBeBytes(txpk.tmst[1]) ELSE <<>>])

\* The values of chirpstack_api::gw::TxAckStatus handle_pull_resp matches on.
TxAckStatuses ==
    {"Ok", "Ignored", "TooLate", "TooEarly", "CollisionPacket", "CollisionBeacon",
     "TxFreq", "TxPower", "GpsUnlocked", "QueueFull", "InternalError",
     "DutyCycleOverflow"}

\* TxAckError that reports a duty-cycle overflow as an internal error.
TxAckError_NoDutyCycle(status) ==
    CASE status = "Ok" -> ""
      [] status = "Ignored" -> "IGNORED"
      [] status = "TooLate" -> "TOO_LATE"
      [] status = "TooEarly" -> "TOO_EARLY"
      [] status = "CollisionPacket" -> "COLLISION_PACKET"
      [] status = "CollisionBeacon" -> "COLLISION_BEACON"
      [] status = "TxFreq" -> "TX_FREQ"
      [] status = "TxPower" -> "TX_POWER"
      [] status = "GpsUnlocked" -> "GPS_UNLOCKED"
      [] status = "QueueFull" -> "QUEUE_FULL"
      [] status = "InternalError" -> "INTERNAL_ERROR"
      [] status = "DutyCycleOverflow" -> "INTERNAL_ERROR"

\* The Semtech error code of a DownlinkTxAck item's status (handle_pull_resp).
TxAckError(status) ==
    CASE status = "Ok" -> ""
      [] status = "Ignored" -> "IGNORED"
      [] status = "TooLate" -> "TOO_LATE"
      [] status = "TooEarly" -> "TOO_EARLY"
      [] status = "CollisionPacket" -> "COLLISION_PACKET"
      [] status = "CollisionBeacon" -> "COLLISION_BEACON"
      [] status = "TxFreq" -> "TX_FREQ"
      [] status = "TxPower" -> "TX_POWER"
      [] status = "GpsUnlocked" -> "GPS_UNLOCKED"
      [] status = "QueueFull" -> "QUEUE_FULL"
      [] status = "InternalError" -> "INTERNAL_ERROR"
      [] status = "DutyCycleOverflow" -> "DUTY_CYCLE_OVERFLOW"

\* The label of the metrics of a TX_ACK with the error code error.
MetricsKey(error) == IF error = "" THEN "TX_ACK_OK" ELSE "TX_ACK_ERROR_" \o error

(* ------------------------------- uplinks -------------------------------- *)
\* An uplink event up is [rx_info, tx_info, crc, context_len, modu, gps,
\* code_rate]: whether the two sub-records are present, the CRC status and the
\* length of the context of rx_info, the modulation parameters of tx_info
\* ("lora", "fsk", "lrfhss", "no_parameters" or "no_modulation"), the
\* time_since_gps_epoch of rx_info, if any, and the code_rate of LoRa parameters.

\* The CodeRate RXPK::from_proto makes of the code_rate of LoRa parameters.
CodeRate_from_proto(code_rate) ==
    CASE code_rate = "Cr45" -> "LoRa4_5"
      [] code_rate = "Cr46" -> "LoRa4_6"
      [] code_rate = "Cr47" -> "LoRa4_7"
      [] code_rate = "Cr48" -> "LoRa4_8"
      [] OTHER -> "Undefined"

\* tmms of RXPK::from_proto.
Tmms_from_proto(gps) ==
    IF gps = None THEN None ELSE Some(gps[1].seconds * 1000 + gps[1].nanos \div 1000000)

\* RXPK::from_proto: the tmms, stat, modu, codr and lsnr of the rxpk.
RXPK_from_proto(up) ==
    IF ~up.rx_info THEN Err
    ELSE IF ~up.tx_info THEN Err
    ELSE IF up.context_len # 4 THEN Panic
    ELSE IF up.modu = "lora"
         THEN Ok([tmms |-> Tmms_from_proto(up.gps), stat |-> "OK", modu |-> "LORA",
                  codr |-> Some(CodeRate_from_proto(up.code_rate)), lsnr |-> Some("snr")])
    ELSE IF up.modu = "fsk"
         THEN Ok([tmms |-> Tmms_from_proto(up.gps), stat |-> "OK", modu |-> "FSK",
                  codr |-> None, lsnr |-> None])
    ELSE Err

\* serde_json of a value: an object is the sequence of its members <<key,
\* value>> in the order they are written, an array the sequence of its items;
\* JOther stands for the value of a field the model does not follow.
JOther == [t |-> "other"]
JObject(members) == [t |-> "object", members |-> members]
JArray(items) == [t |-> "array", items |-> items]

\* impl Serialize for CRC: the enum has the one variant OK.
CRC_serialize(c) == CASE c = "OK" -> 1

\* impl Serialize for CodeRate
CodeRate_serialize(c) ==
    CASE c = "LoRa4_5" -> JStr(<<"4", "/", "5">>)
      [] c = "LoRa4_6" -> JStr(<<"4", "/", "6">>)
      [] c = "LoRa4_7" -> JStr(<<"4", "/", "7">>)
      [] c = "LoRa4_8" -> JStr(<<"4", "/", "8">>)
      [] OTHER -> JNull

\* #[derive(Serialize)] for RXPK: every field is written, None as null.
RXPK_serialize(r) ==
    JObject(<< <<"time", JOther>>,
               <<"tmms", IF r.tmms = None THEN JNull ELSE JNum(FALSE, FALSE, r.tmms[1])>>,
               <<"tmst", JOther>>,
               <<"freq", JOther>>,
               <<"chan", JOther>>,
               <<"rfch", JOther>>,
               <<"stat", JNum(FALSE, FALSE, CRC_serialize(r.stat))>>,
               <<"modu", JOther>>,
               <<"datr", JOther>>,
               <<"codr", IF r.codr = None THEN JNull ELSE CodeRate_serialize(r.codr[1])>>,
               <<"rssi", JOther>>,
               <<"lsnr", IF r.lsnr = None THEN JNull ELSE JOther>>,
               <<"size", JOther>>,
               <<"data", JOther>> >>)

\* #[derive(Serialize)] for Stat
Stat_serialize(st) ==
    JObject(<< <<"time", JOther>>, <<"lati", JOther>>, <<"long", JOther>>,
               <<"alti", JOther>>, <<"rxnb", JOther>>, <<"rxok", JOther>>,
               <<"rxfw", JNum(FALSE, FALSE, st.rxfw)>>, <<"ackr", JOther>>,
               <<"dwnb", JOther>>, <<"txnb", JOther>> >>)

\* #[derive(Serialize)] for PushDataPayload
PushDataPayload_serialize(pl) ==
    JObject(<< <<"rxpk", JArray([i \in 1..Len(pl.rxpk) |-> RXPK_serialize(pl.rxpk[i])])>>,
               <<"stat", IF pl.stat = None THEN JNull ELSE Stat_serialize(pl.stat[1])>> >>)

\* PushData::to_bytes: the 12-byte header and the JSON of the payload.
PushData_to_bytes(pd) ==
    [hdr |-> PushData_header(pd), json |-> PushDataPayload_serialize(pd.payload)]

\* PassesFilter with forward_crc_ok deciding for an invalid CRC too.
PassesFilter_OneFlag(up, crc_ok, crc_invalid, crc_missing) ==
    ~up.rx_info
    \/ (up.crc = "CRC_OK" /\ crc_ok)
    \/ (up.crc = "BAD_CRC" /\ crc_ok)
    \/ (up.crc = "NO_CRC" /\ crc_missing)

\* The CRC filter at the head of events_up: TRUE when the uplink goes on.
PassesFilter(up, crc_ok, crc_invalid, crc_missing) ==
    ~up.rx_info
    \/ (up.crc = "CRC_OK" /\ crc_ok)
    \/ (up.crc = "BAD_CRC" /\ crc_invalid)
    \/ (up.crc = "NO_CRC" /\ crc_missing)

\* ackr of a stat, as the exact ratio num / den percent (events_stats).
Ackr(pd_sent, pd_acked) ==
    IF pd_sent # 0 THEN [num |-> pd_acked * 100, den |-> pd_sent]
    ELSE [num |-> 0, den |-> 1]

(* ------------------------------- inputs --------------------------------- *)

Datagram(ver, t, id, size, json) ==
    [b |-> SubSeq(<<ver>> \o ToBeBytes(t) \o <<id>>, 1, IF size < 4 THEN size ELSE 4),
     size |-> size, json |-> json]

\* The datagrams the server (or anyone else) may send to the UDP socket:
\* acknowledgements of either kind, well-formed or not, and datagrams that
\* udp_receive_loop ignores; and the PULL_RESP datagrams.
\* The datagram of the scenario stop: a PUSH_ACK, and never a PULL_ACK.
StopDatagrams == {Datagram(PROTOCOL_VERSION, TokenStep, ID_PUSH_ACK, 4, NoJson)}

\* The well-formed PUSH_ACKs, one for each token.
PushAcks == {Datagram(PROTOCOL_VERSION, t, ID_PUSH_ACK, 4, NoJson) : t \in TokenSet}

AckDatagrams(id) ==
    {Datagram(ver, t, id, 4, NoJson) : ver \in {PROTOCOL_VERSION, 1}, t \in TokenSet}
    \cup {Datagram(PROTOCOL_VERSION, t, id, 5, Garbage) : t \in TokenSet}

OtherDatagrams ==
    {Datagram(PROTOCOL_VERSION, 0, ID_PULL_ACK, 3, NoJson),
     Datagram(PROTOCOL_VERSION, 0, ID_PUSH_DATA, 4, NoJson),
     Datagram(PROTOCOL_VERSION, TokenStep, ID_TX_ACK, 5, Garbage)}

PullRespDatagrams ==
    {Datagram(ver, t, ID_PULL_RESP, 5, j) :
        ver \in {PROTOCOL_VERSION, 1}, t \in TokenSet, j \in PullRespJsons}
    \cup {Datagram(PROTOCOL_VERSION, 0, ID_PULL_RESP, 4, NoJson)}

\* An uplink without time_since_gps_epoch, with the code rate 4/5 when it is LoRa.
Uplink(rx_info, tx_info, crc, context_len, modu) ==
    [kind |-> "up", rx_info |-> rx_info, tx_info |-> tx_info, crc |-> crc,
     context_len |-> context_len, modu |-> modu, gps |-> None, code_rate |-> "Cr45"]

CrcStatuses == {"CRC_OK", "BAD_CRC", "NO_CRC"}

\* What one round of the event reader yields to events_loop.
IdleEvents == {[kind |-> k] : k \in {"timeout", "error", "other"}}

UplinkEvents ==
    {Uplink(TRUE, TRUE, crc, 4, modu) : crc \in CrcStatuses, modu \in {"lora", "fsk"}}
    \cup {Uplink(TRUE, TRUE, "CRC_OK", 4, modu) :
            modu \in {"lrfhss", "no_parameters", "no_modulation"}}
    \cup {Uplink(FALSE, TRUE, "NO_CRC", 4, "lora"),
          Uplink(TRUE, FALSE, "CRC_OK", 4, "lora"),
          Uplink(TRUE, TRUE, "CRC_OK", 3, "lora"),
          Uplink(TRUE, TRUE, "BAD_CRC", 3, "lora"),
          Uplink(TRUE, TRUE, "CRC_OK", 3, "lrfhss")}

StatsEvents == {[kind |-> "stats"]}

\* What the command socket holds when the poll of handle_pull_resp returns
\* readable: bytes that do not decode, or a DownlinkTxAck with its items.
Replies ==
    {[kind |-> "undecodable"], [kind |-> "tx_ack", items |-> <<>>],
     [kind |-> "tx_ack", items |-> <<"Ok", "Ok">>]}
    \cup {[kind |-> "tx_ack", items |-> <<s>>] : s \in TxAckStatuses}

\* The forward_crc_ok, forward_crc_invalid and forward_crc_missing of the
\* configurations in the model: the default and its opposite.
ForwardConfigs == {<<TRUE, FALSE, FALSE>>, <<FALSE, TRUE, TRUE>>}

(* -------------------------------- state --------------------------------- *)

\* What the surroundings of the forwarder do during a run:
\*   "keepalive"  the server sends PULL_ACKs and datagrams that are ignored,
\*                the concentrator sends no uplinks and no stats;
\*   "uplink"     the concentrator sends uplinks and stats, the server sends
\*                PUSH_ACKs, and every PULL_DATA draws the token 0;
\*   "downlink"   the server sends PULL_RESPs, the concentrator replies (or
\*                not) to the commands, and no PULL_DATA is acknowledged.
Scenarios == {"keepalive", "uplink", "downlink", "acks", "stop"}

VARIABLES
    \* the scenario of the run
    scenario,
    \* config::Server
    keepalive_max_failures, forward_crc_ok, forward_crc_invalid, forward_crc_missing,
    \* forwarder::State
    push_data_token, push_data_sent, push_data_acked,
    pull_data_token, pull_data_token_acked, rxfw,
    \* command_sock: a request was sent and its reply has not been read
    req_pending,
    \* the Stop queued for udp_receive_loop and for events_loop
    stop_udp, stop_events,
    \* forwarder::start and main
    spc, proc_down,
    \* pull_data_loop
    kpc, missed_acks,
    \* udp_receive_loop; the token of the PULL_RESP being handled
    upc, pull_resp_token,
    \* events_loop; the locals of events_stats
    epc, stat_rxfw, pd_sent, pd_acked,
    \* what the last step handed to the UDP socket and to the command socket,
    \* and what it added to the counters of metrics.rs
    out, met,
    \* the error handle_pull_resp returned in the last step, None if none
    warned,
    \* a call of a function of the codec on its own: the call and its input,
    \* and its result once it has returned
    cin, cres,
    \* history: tokens of the last and the last but one PULL_DATA sent, of the
    \* last PULL_ACK received since that PULL_DATA and of the last one ever,
    \* whether that one carried the pull_data_token of the time it was handled,
    \* whether a PULL_ACK with the token of the last PULL_DATA came after it,
    \* whether socket.send returned Ok for the last PULL_DATA, and the values the counters held when the last flush reset them
    h_pull, h_prev_pull, h_ack, h_ack_ever, h_ack_cur, h_pull_acked, h_pull_ok, h_flush,
    \* history: the uplinks events_up has sent on since the last flush, and
    \* whether start has started an instance after the first one
    h_fwd, h_restarted,
    \* history: whether socket.send returned Ok for the PUSH_DATA whose counters are still to be incremented
    h_push_ok,
    \* history: the PUSH_ACKs the server of the scenario acks still owes, per token
    h_owed,
    \* history: the commands sent on the command socket whose reply has not been read
    h_unread,
    \* history: the PULL_DATA the instance has sent, or -1 once it has received a PULL_ACK or drawn the token 0
    h_silent,
    \* history: the increments of rxfw that are neither in the counter nor in a stat handed to the socket
    h_unrep,
    \* history: the datagrams udp_receive_loop has taken from the socket since Stop was broadcast
    h_late,
    \* history: an uplink or stats event was read and dropped when events_loop found the Stop
    h_discarded

confVars == <<scenario, keepalive_max_failures, forward_crc_ok, forward_crc_invalid, forward_crc_missing>>
stateVars == <<push_data_token, push_data_sent, push_data_acked,
               pull_data_token, pull_data_token_acked, rxfw>>
stopVars == <<stop_udp, stop_events>>
supVars == <<spc, proc_down>>
kaVars == <<kpc, missed_acks>>
udpVars == <<upc, pull_resp_token>>
evVars == <<epc, stat_rxfw, pd_sent, pd_acked>>
codecVars == <<cin, cres>>
pullHist == <<h_pull, h_prev_pull, h_ack, h_ack_ever, h_ack_cur, h_pull_acked, h_pull_ok>>
vars == <<confVars, stateVars, req_pending, stopVars, supVars, kaVars, udpVars, evVars,
          out, met, warned, codecVars, pullHist, h_flush, h_fwd, h_restarted, h_push_ok, h_owed, h_unread, h_silent, h_unrep, h_late, h_discarded>>

NoFlush == [rxfw |-> 0, sent |-> 0, acked |-> 0, fwd |-> 0]

\* The inputs of the scenario sc: datagrams, events, and the random tokens
\* drawn for PULL_DATA and for PUSH_DATA.
Datagrams(sc) ==
    CASE sc = "keepalive" -> AckDatagrams(ID_PULL_ACK) \cup OtherDatagrams
      [] sc = "uplink" -> AckDatagrams(ID_PUSH_ACK)
      [] sc = "downlink" -> PullRespDatagrams
      [] sc = "acks" -> PushAcks
      [] sc = "stop" -> StopDatagrams

Events(sc) ==
    CASE sc = "keepalive" -> IdleEvents
      [] sc = "uplink" -> IdleEvents \cup UplinkEvents \cup StatsEvents
      [] sc = "downlink" -> IdleEvents
      [] sc = "acks" -> {[kind |-> "timeout"], Uplink(TRUE, TRUE, "CRC_OK", 4, "lora")}
                            \cup StatsEvents
      [] sc = "stop" -> {[kind |-> "timeout"], Uplink(TRUE, TRUE, "CRC_OK", 4, "lora")}

PullTokens(sc) ==
    IF sc \in {"uplink", "acks"} THEN {0} ELSE IF sc = "stop" THEN {TokenStep} ELSE TokenSet

\* The configurations of the scenario sc: keepalive_max_failures is 0 (never
\* restart) or MaxFailures where the keepalive is what the scenario is about,
\* and the three forward_crc_* flags vary where uplinks arrive.
MaxFailuresConfigs(sc) ==
    IF sc \in {"uplink", "acks"} THEN {0} ELSE IF sc = "stop" THEN {MaxFailures}
    ELSE {0, MaxFailures}

ForwardConfigsOf(sc) == IF sc = "uplink" THEN ForwardConfigs ELSE {<<TRUE, FALSE, FALSE>>}

PushTokens(sc) == TokenSet

\* What socket.send returns for a PULL_DATA: Ok or Err where the keepalive is
\* what the scenario is about, Ok elsewhere.
PullSendOutcomes(sc) == IF sc = "keepalive" THEN BOOLEAN ELSE {TRUE}

\* What socket.send returns for a PUSH_DATA: Ok in the scenario acks, where
\* every PUSH_DATA reaches the server, and in the scenario stop, Ok or Err
\* elsewhere.
PushSendOutcomes(sc) == IF sc \in {"acks", "stop"} THEN {TRUE} ELSE BOOLEAN

\* The server of the scenario acks answers a PUSH_DATA it received with at
\* most one PUSH_ACK that echoes its token and sends nothing else: owed[t] is
\* the number of PUSH_DATA with the token t it has not answered yet.
ZeroOwed == [t \in TokenSet |-> 0]

RECURSIVE SumOwed(_, _)
SumOwed(owed, ts) ==
    IF ts = {} THEN 0
    ELSE LET t == CHOOSE x \in ts : TRUE IN owed[t] + SumOwed(owed, ts \ {t})

OwedTotal(owed) == SumOwed(owed, DOMAIN owed)

ServerMaySend(sc, d, owed) ==
    sc = "acks" => owed[d.b[2] * 256 + d.b[3]] > 0

OwedAfterAck(sc, d, owed) ==
    IF sc = "acks" THEN [owed EXCEPT ![d.b[2] * 256 + d.b[3]] = @ - 1] ELSE owed

OwedAfterSend(sc, t, ok, owed) ==
    IF sc = "acks" /\ ok THEN [owed EXCEPT ![t] = @ + 1] ELSE owed

UdpOut(hdr, payload, ok) == [chan |-> "udp", hdr |-> hdr, payload |-> payload, ok |-> ok]
CmdOut(frame) == [chan |-> "cmd", frame |-> frame]

\* metrics.rs: what a pair of calls adds to the counters with the label typ.
\* by is the number of bytes counted; for a frame with a JSON body it is the
\* length of the header hdr, and body tells that the length of the JSON is
\* added to it.
incr_udp_received(typ, size) ==
    <<[name |-> "udp_received_count", type |-> typ, by |-> 1, body |-> FALSE],
      [name |-> "udp_received_bytes", type |-> typ, by |-> size, body |-> FALSE]>>

incr_udp_sent(typ, hdr, json) ==
    <<[name |-> "udp_sent_count", type |-> typ, by |-> 1, body |-> FALSE],
      [name |-> "udp_sent_bytes", type |-> typ, by |-> Len(hdr), body |-> json]>>

\* The State of a new instance and the history of an instance that did nothing yet.
FreshState ==
    /\ push_data_token' = 0
    /\ push_data_sent' = 0
    /\ push_data_acked' = 0
    /\ pull_data_token' = 0
    /\ pull_data_token_acked' = 0
    /\ rxfw' = 0
    /\ req_pending' = FALSE
    /\ h_pull' = None
    /\ h_ack_cur' = FALSE
    /\ h_pull_ok' = TRUE
    /\ h_prev_pull' = None
    /\ h_ack' = None
    /\ h_ack_ever' = None
    /\ h_pull_acked' = FALSE
    /\ h_flush' = NoFlush
    /\ h_fwd' = 0
    /\ h_push_ok' = TRUE
    /\ h_owed' = ZeroOwed
    /\ h_unread' = 0
    /\ h_silent' = 0
    /\ h_unrep' = 0
    /\ h_late' = 0
    /\ h_discarded' = FALSE

\* The state after construction, before start has run.
ProgInit ==
    /\ scenario \in Scenarios
    /\ keepalive_max_failures \in MaxFailuresConfigs(scenario)
    /\ \E c \in ForwardConfigsOf(scenario) :
        /\ forward_crc_ok = c[1]
        /\ forward_crc_invalid = c[2]
        /\ forward_crc_missing = c[3]
    /\ push_data_token = 0
    /\ push_data_sent = 0
    /\ push_data_acked = 0
    /\ pull_data_token = 0
    /\ pull_data_token_acked = 0
    /\ rxfw = 0
    /\ req_pending = FALSE
    /\ stop_udp = FALSE
    /\ stop_events = FALSE
    /\ spc = "setup"
    /\ proc_down = FALSE
    /\ kpc = "none"
    /\ missed_acks = 0
    /\ upc = "none"
    /\ pull_resp_token = None
    /\ epc = "none"
    /\ stat_rxfw = 0
    /\ pd_sent = 0
    /\ pd_acked = 0
    /\ out = <<>>
    /\ met = <<>>
    /\ warned = None
    /\ h_fwd = 0
    /\ h_restarted = FALSE
    /\ h_pull = None
    /\ h_ack_cur = FALSE
    /\ h_pull_ok = TRUE
    /\ h_prev_pull = None
    /\ h_ack = None
    /\ h_ack_ever = None
    /\ h_pull_acked = FALSE
    /\ h_flush = NoFlush
    /\ h_push_ok = TRUE
    /\ h_owed = ZeroOwed
    /\ h_unread = 0
    /\ h_silent = 0
    /\ h_unrep = 0
    /\ h_late = 0
    /\ h_discarded = FALSE

\* No call of the codec on its own.
NoCall == [call |-> "none", input |-> None]

Init ==
    /\ ProgInit
    /\ cin = NoCall
    /\ cres = None

(* ------------------------- forwarder::start, main ----------------------- *)

\* Ended for a join that returns at once, as for a detached thread.
Ended_NoWait(pc) == TRUE

Ended(pc) == pc \in {"done", "panicked"}

\* One iteration of the loop of start up to the spawning of the three threads.
SupStart ==
    /\ ~proc_down
    /\ UNCHANGED codecVars
    /\ warned' = None
    /\ spc = "setup"
    /\ FreshState
    /\ stop_udp' = FALSE
    /\ stop_events' = FALSE
    /\ upc' = "check"
    /\ pull_resp_token' = None
    /\ epc' = "next"
    /\ stat_rxfw' = 0
    /\ pd_sent' = 0
    /\ pd_acked' = 0
    /\ kpc' = "cmp"
    /\ missed_acks' = 0
    /\ spc' = "join_udp"
    /\ h_restarted' = (h_restarted \/ kpc # "none")
    /\ out' = <<>>
    /\ met' = <<>>
    /\ UNCHANGED <<confVars, proc_down>>

\* A socket that cannot be bound, connected or created: expect() panics.
SupStartPanic ==
    /\ ~proc_down
    /\ UNCHANGED codecVars
    /\ UNCHANGED h_discarded
    /\ UNCHANGED h_late
    /\ UNCHANGED h_unrep
    /\ UNCHANGED h_silent
    /\ UNCHANGED h_unread
    /\ UNCHANGED h_owed
    /\ UNCHANGED h_push_ok
    /\ warned' = None
    /\ spc = "setup"
    /\ spc' = "panicked"
    /\ out' = <<>>
    /\ met' = <<>>
    /\ UNCHANGED <<confVars, stateVars, req_pending, stopVars, proc_down, kaVars, udpVars,
                   evVars, pullHist, h_flush, h_fwd, h_restarted>>

\* What t.join().unwrap() makes of start for a thread that ended with pc.
AfterJoin(pc, next) == IF pc = "panicked" THEN "panicked" ELSE next

\* for t in threads { t.join().unwrap() }, then the loop starts over.
SupJoin ==
    /\ ~proc_down
    /\ UNCHANGED codecVars
    /\ UNCHANGED h_discarded
    /\ UNCHANGED h_late
    /\ UNCHANGED h_unrep
    /\ UNCHANGED h_silent
    /\ UNCHANGED h_unread
    /\ UNCHANGED h_owed
    /\ UNCHANGED h_push_ok
    /\ warned' = None
    /\ \/ spc = "join_udp" /\ Ended(upc) /\ spc' = AfterJoin(upc, "join_events")
       \/ spc = "join_events" /\ Ended(epc) /\ spc' = AfterJoin(epc, "join_pull")
       \/ spc = "join_pull" /\ Ended(kpc) /\ spc' = AfterJoin(kpc, "setup")
    /\ out' = <<>>
    /\ met' = <<>>
    /\ UNCHANGED <<confVars, stateVars, req_pending, stopVars, proc_down, kaVars, udpVars,
                   evVars, pullHist, h_flush, h_fwd, h_restarted>>

\* main joins the thread of start: its panic ends main, and with it the process.
MainJoin ==
    /\ ~proc_down
    /\ UNCHANGED codecVars
    /\ UNCHANGED h_discarded
    /\ UNCHANGED h_late
    /\ UNCHANGED h_unrep
    /\ UNCHANGED h_silent
    /\ UNCHANGED h_unread
    /\ UNCHANGED h_owed
    /\ UNCHANGED h_push_ok
    /\ warned' = None
    /\ spc = "panicked"
    /\ proc_down' = TRUE
    /\ out' = <<>>
    /\ met' = <<>>
    /\ UNCHANGED <<confVars, stateVars, req_pending, stopVars, spc, kaVars, udpVars,
                   evVars, pullHist, h_flush, h_fwd, h_restarted>>

(* ---------------------------- pull_data_loop ---------------------------- *)

\* NextMissedAcks with the reset forgotten.
NextMissedAcks_NoReset(token, acked, missed) == IF token # acked THEN missed + 1 ELSE missed

\* missed_acks after the comparison at the head of the loop.
NextMissedAcks(token, acked, missed) == IF token # acked THEN missed + 1 ELSE 0

\* send_signal that reaches the receiver of udp_receive_loop only.
send_signal_OnlyUdp(receivers) == [r \in receivers |-> r = "udp"]

\* SignalPool::send_signal(Stop): the signal is queued for every receiver that
\* new_receiver has handed out; a receiver finds it at its next recv_timeout.
send_signal(receivers) == [r \in receivers |-> TRUE]

\* ShouldStop without the test for keepalive_max_failures = 0.
ShouldStop_NoZero(max_failures, missed) == missed > max_failures

\* ShouldStop with >= for >.
ShouldStop_Geq(max_failures, missed) == max_failures # 0 /\ missed >= max_failures

\* ShouldStop that lets one more miss pass.
ShouldStop_OneMore(max_failures, missed) == max_failures # 0 /\ missed > max_failures + 1

\* The condition under which the loop broadcasts Stop and returns.
ShouldStop(max_failures, missed) == max_failures # 0 /\ missed > max_failures

\* The comparison of the tokens, and the broadcast of Stop when too many
\* acknowledgements were missed.
KaCompare ==
    /\ ~proc_down
    /\ UNCHANGED codecVars
    /\ UNCHANGED h_discarded
    /\ UNCHANGED h_late
    /\ UNCHANGED h_unrep
    /\ UNCHANGED h_silent
    /\ UNCHANGED h_unread
    /\ UNCHANGED h_owed
    /\ UNCHANGED h_push_ok
    /\ warned' = None
    /\ kpc = "cmp"
    /\ LET m == NextMissedAcks(pull_data_token, pull_data_token_acked, missed_acks) IN
        /\ m <= MaxMissed
        /\ missed_acks' = m
        /\ IF ShouldStop(keepalive_max_failures, m)
           THEN /\ stop_udp' = send_signal({"udp", "events"})["udp"]
                /\ stop_events' = send_signal({"udp", "events"})["events"]
                /\ kpc' = "done"
           ELSE /\ kpc' = "send"
                /\ UNCHANGED stopVars
    /\ out' = <<>>
    /\ met' = <<>>
    /\ UNCHANGED <<confVars, stateVars, req_pending, supVars, udpVars, evVars, pullHist,
                   h_flush, h_fwd, h_restarted>>

\* set_pull_data_token: the token stored is the token returned.
SetToken(t) == [stored |-> t, returned |-> t]

\* The new token, the PULL_DATA sent with it, and the sleep.
KaSend ==
    /\ ~proc_down
    /\ UNCHANGED codecVars
    /\ UNCHANGED h_discarded
    /\ UNCHANGED h_late
    /\ UNCHANGED h_unrep
    /\ UNCHANGED h_unread
    /\ UNCHANGED h_owed
    /\ UNCHANGED h_push_ok
    /\ warned' = None
    /\ kpc = "send"
    /\ \E t \in PullTokens(scenario), ok \in PullSendOutcomes(scenario) :
        LET bytes == PullData_to_bytes([gateway_id |-> GatewayId,
                                        random_token |-> SetToken(t).returned])
        IN  /\ pull_data_token' = SetToken(t).stored
            /\ out' = <<UdpOut(bytes, NoJson, ok)>>
            /\ met' = incr_udp_sent("PULL_DATA", bytes, FALSE)
            /\ h_prev_pull' = h_pull
            /\ h_pull' = Some(bytes[2] * 256 + bytes[3])
            /\ h_pull_ok' = ok
            /\ h_silent' = IF h_silent < 0 \/ t = 0 THEN -1 ELSE h_silent + 1
    /\ h_ack' = None
    /\ h_pull_acked' = FALSE
    /\ kpc' = "cmp"
    /\ UNCHANGED <<confVars, push_data_token, push_data_sent, push_data_acked,
                   pull_data_token_acked, rxfw, req_pending, stopVars, supVars, missed_acks,
                   udpVars, evVars, h_ack_ever, h_ack_cur, h_flush, h_fwd, h_restarted>>

(* --------------------------- udp_receive_loop --------------------------- *)

\* stop_receive.recv_timeout(0) at the head of the loop.
UdpCheckStop ==
    /\ ~proc_down
    /\ UNCHANGED codecVars
    /\ UNCHANGED h_discarded
    /\ UNCHANGED h_late
    /\ UNCHANGED h_unrep
    /\ UNCHANGED h_silent
    /\ UNCHANGED h_unread
    /\ UNCHANGED h_owed
    /\ UNCHANGED h_push_ok
    /\ warned' = None
    /\ upc = "check"
    /\ IF stop_udp
       THEN upc' = "done" /\ stop_udp' = FALSE
       ELSE upc' = "recv" /\ stop_udp' = stop_udp
    /\ out' = <<>>
    /\ met' = <<>>
    /\ UNCHANGED <<confVars, stateVars, req_pending, stop_events, supVars, kaVars,
                   pull_resp_token, evVars, pullHist, h_flush, h_fwd, h_restarted>>

\* socket.recv returns an error: most likely the 100 ms timeout.
UdpRecvTimeout ==
    /\ ~proc_down
    /\ UNCHANGED codecVars
    /\ UNCHANGED h_discarded
    /\ UNCHANGED h_late
    /\ UNCHANGED h_unrep
    /\ UNCHANGED h_silent
    /\ UNCHANGED h_unread
    /\ UNCHANGED h_owed
    /\ UNCHANGED h_push_ok
    /\ warned' = None
    /\ upc = "recv"
    /\ upc' = "check"
    /\ out' = <<>>
    /\ met' = <<>>
    /\ UNCHANGED <<confVars, stateVars, req_pending, stopVars, supVars, kaVars,
                   pull_resp_token, evVars, pullHist, h_flush, h_fwd, h_restarted>>

\* The kind udp_receive_loop dispatches a datagram of at least 4 bytes to.
\* Dispatch that takes every datagram it has no handler for as a PULL_ACK.
Dispatch_DefaultPullAck(d) ==
    IF d.b[4] = ID_PUSH_ACK THEN "PUSH_ACK"
    ELSE IF d.b[4] = ID_PULL_RESP THEN "PULL_RESP"
    ELSE "PULL_ACK"

Dispatch(d) ==
    IF d.b[4] = ID_PUSH_ACK THEN "PUSH_ACK"
    ELSE IF d.b[4] = ID_PULL_RESP THEN "PULL_RESP"
    ELSE IF d.b[4] = ID_PULL_ACK THEN "PULL_ACK"
    ELSE "UNKNOWN"

\* A datagram of fewer than 4 bytes, or of an unknown kind: nothing is done.
UdpIgnore(d) ==
    /\ ~proc_down
    /\ UNCHANGED codecVars
    /\ UNCHANGED h_discarded
    /\ h_late' = IF kpc = "done" THEN h_late + 1 ELSE h_late
    /\ UNCHANGED h_unrep
    /\ UNCHANGED h_silent
    /\ UNCHANGED h_unread
    /\ UNCHANGED h_owed
    /\ UNCHANGED h_push_ok
    /\ warned' = None
    /\ upc = "recv"
    /\ IF d.size < MinDatagram THEN TRUE ELSE Dispatch(d) = "UNKNOWN"
    /\ upc' = "check"
    /\ out' = <<>>
    /\ met' = IF d.size < MinDatagram THEN <<>> ELSE incr_udp_received(Dispatch(d), d.size)
    /\ UNCHANGED <<confVars, stateVars, req_pending, stopVars, supVars, kaVars,
                   pull_resp_token, evVars, pullHist, h_flush, h_fwd, h_restarted>>

\* PushAckMatches without the comparison of the tokens.
PushAckMatches_AnyToken(d, expected_token) == PushAck_from_bytes(d).ok

\* handle_push_ack up to the comparison with get_push_data_token: TRUE when
\* incr_push_data_acked is to follow.
PushAckMatches(d, expected_token) ==
    PushAck_from_bytes(d).ok /\ PushAck_from_bytes(d).v.random_token = expected_token

\* A PUSH_ACK: decoded and compared with the current push_data_token.
UdpPushAck(d) ==
    /\ ~proc_down
    /\ UNCHANGED codecVars
    /\ UNCHANGED h_discarded
    /\ h_late' = IF kpc = "done" THEN h_late + 1 ELSE h_late
    /\ UNCHANGED h_unrep
    /\ UNCHANGED h_silent
    /\ UNCHANGED h_unread
    /\ ServerMaySend(scenario, d, h_owed)
    /\ h_owed' = OwedAfterAck(scenario, d, h_owed)
    /\ UNCHANGED h_push_ok
    /\ warned' = None
    /\ upc = "recv"
    /\ d.size >= MinDatagram
    /\ Dispatch(d) = "PUSH_ACK"
    /\ push_data_acked < MaxCount
    /\ upc' = IF PushAckMatches(d, push_data_token) THEN "incr_acked" ELSE "check"
    /\ out' = <<>>
    /\ met' = incr_udp_received(Dispatch(d), d.size)
    /\ UNCHANGED <<confVars, stateVars, req_pending, stopVars, supVars, kaVars,
                   pull_resp_token, evVars, pullHist, h_flush, h_fwd, h_restarted>>

\* incr_push_data_acked, the end of handle_push_ack for a matching token.
UdpIncrAcked ==
    /\ ~proc_down
    /\ UNCHANGED codecVars
    /\ UNCHANGED h_discarded
    /\ UNCHANGED h_late
    /\ UNCHANGED h_unrep
    /\ UNCHANGED h_silent
    /\ UNCHANGED h_unread
    /\ UNCHANGED h_owed
    /\ UNCHANGED h_push_ok
    /\ warned' = None
    /\ upc = "incr_acked"
    /\ push_data_acked' = push_data_acked + 1
    /\ upc' = "check"
    /\ out' = <<>>
    /\ met' = <<>>
    /\ UNCHANGED <<confVars, push_data_token, push_data_sent, pull_data_token,
                   pull_data_token_acked, rxfw, req_pending, stopVars, supVars, kaVars,
                   pull_resp_token, evVars, pullHist, h_flush, h_fwd, h_restarted>>

\* PullAckStore that keeps only the token of the outstanding PULL_DATA.
PullAckStore_OnlyCurrent(d, acked) ==
    IF PullAck_from_bytes(d).ok /\ PullAck_from_bytes(d).v.random_token = pull_data_token
    THEN PullAck_from_bytes(d).v.random_token ELSE acked

\* PullAckStore that stores nothing.
PullAckStore_Dropped(d, acked) == acked

\* handle_pull_ack: pull_data_token_acked after the datagram d.
PullAckStore(d, acked) ==
    IF PullAck_from_bytes(d).ok THEN PullAck_from_bytes(d).v.random_token ELSE acked

\* TRUE when d is a well-formed PULL_ACK: 4 bytes, version 2, identifier 4.
WellFormedPullAck(d) == d.size = 4 /\ d.b[1] = 2 /\ d.b[4] = 4

\* A PULL_ACK: handle_pull_ack.
UdpPullAck(d) ==
    /\ ~proc_down
    /\ UNCHANGED codecVars
    /\ UNCHANGED h_discarded
    /\ h_late' = IF kpc = "done" THEN h_late + 1 ELSE h_late
    /\ UNCHANGED h_unrep
    /\ h_silent' = IF WellFormedPullAck(d) THEN -1 ELSE h_silent
    /\ UNCHANGED h_unread
    /\ UNCHANGED h_owed
    /\ UNCHANGED h_push_ok
    /\ warned' = None
    /\ upc = "recv"
    /\ d.size >= MinDatagram
    /\ Dispatch(d) = "PULL_ACK"
    /\ pull_data_token_acked' = PullAckStore(d, pull_data_token_acked)
    /\ IF WellFormedPullAck(d)
       THEN /\ h_ack' = Some(d.b[2] * 256 + d.b[3])
            /\ h_ack_ever' = Some(d.b[2] * 256 + d.b[3])
            /\ h_ack_cur' = (d.b[2] * 256 + d.b[3] = pull_data_token)
            /\ h_pull_acked' = (h_pull_acked \/ h_pull = Some(d.b[2] * 256 + d.b[3]))
       ELSE UNCHANGED <<h_ack, h_ack_ever, h_ack_cur, h_pull_acked>>
    /\ upc' = "check"
    /\ out' = <<>>
    /\ met' = incr_udp_received(Dispatch(d), d.size)
    /\ UNCHANGED <<confVars, push_data_token, push_data_sent, push_data_acked,
                   pull_data_token, rxfw, req_pending, stopVars, supVars, kaVars,
                   pull_resp_token, evVars, h_pull, h_prev_pull, h_pull_ok, h_flush, h_fwd,
                   h_restarted>>

\* PullRespOutcome for a socket that lets a command be sent while the reply
\* to the one before is still unread.
PullRespOutcome_SendWhilePending(d, gateway_id, pending) ==
    LET r == PullResp_from_bytes(d) IN
    IF r.panic THEN "panic"
    ELSE IF ~r.ok THEN "return"
    ELSE IF ~TXPK_to_proto(r.v.payload.txpk, r.v.random_token, gateway_id).ok THEN "return"
    ELSE "sent"

\* handle_pull_resp up to the poll of the command socket: "panic" when the
\* thread panics, "return" when the handler returns an error before any
\* command is sent, "sent" when the command went out.  A REQ socket that still
\* waits for a reply refuses to send, and send(..).unwrap() panics.
PullRespOutcome(d, gateway_id, pending) ==
    LET r == PullResp_from_bytes(d) IN
    IF r.panic THEN "panic"
    ELSE IF ~r.ok THEN "return"
    ELSE IF ~TXPK_to_proto(r.v.payload.txpk, r.v.random_token, gateway_id).ok THEN "return"
    ELSE IF pending THEN "panic"
    ELSE "sent"

\* The error handle_pull_resp returns before it sends a command, None when it
\* goes on to send (or panics).
PullRespError(d, gateway_id) ==
    LET r == PullResp_from_bytes(d) IN
    IF r.panic THEN None
    ELSE IF ~r.ok THEN Some("PullResp::from_bytes")
    ELSE IF ~TXPK_to_proto(r.v.payload.txpk, r.v.random_token, gateway_id).ok
         THEN Some("TxPk to proto error")
    ELSE None

\* A PULL_RESP: decoded, translated and sent on as a command.
UdpPullResp(d) ==
    /\ ~proc_down
    /\ UNCHANGED codecVars
    /\ UNCHANGED h_discarded
    /\ h_late' = IF kpc = "done" THEN h_late + 1 ELSE h_late
    /\ UNCHANGED h_unrep
    /\ UNCHANGED h_silent
    /\ h_unread' = IF PullRespOutcome(d, GatewayId, req_pending) = "sent"
                   THEN h_unread + 1 ELSE h_unread
    /\ UNCHANGED h_owed
    /\ UNCHANGED h_push_ok
    /\ warned' = PullRespError(d, GatewayId)
    /\ upc = "recv"
    /\ d.size >= MinDatagram
    /\ Dispatch(d) = "PULL_RESP"
    /\ LET o == PullRespOutcome(d, GatewayId, req_pending) IN
        /\ upc' = CASE o = "panic" -> "panicked"
                    [] o = "return" -> "check"
                    [] o = "sent" -> "poll"
        /\ req_pending' = (req_pending \/ o = "sent")
        /\ pull_resp_token' = IF o = "sent"
                              THEN Some(PullResp_from_bytes(d).v.random_token)
                              ELSE None
        /\ out' = IF o = "sent"
                  THEN <<CmdOut(TXPK_to_proto(PullResp_from_bytes(d).v.payload.txpk,
                                              PullResp_from_bytes(d).v.random_token,
                                              GatewayId).v)>>
                  ELSE <<>>
    /\ met' = incr_udp_received(Dispatch(d), d.size)
    /\ UNCHANGED <<confVars, stateVars, stopVars, supVars, kaVars, evVars, pullHist,
                   h_flush, h_fwd, h_restarted>>

\* The poll of the command socket ends after 100 ms with nothing to read.
UdpPollTimeout ==
    /\ ~proc_down
    /\ UNCHANGED codecVars
    /\ UNCHANGED h_discarded
    /\ UNCHANGED h_late
    /\ UNCHANGED h_unrep
    /\ UNCHANGED h_silent
    /\ UNCHANGED h_unread
    /\ UNCHANGED h_owed
    /\ UNCHANGED h_push_ok
    /\ warned' = Some("could not read down response")
    /\ upc = "poll"
    /\ upc' = "check"
    /\ pull_resp_token' = None
    /\ out' = <<>>
    /\ met' = <<>>
    /\ UNCHANGED <<confVars, stateVars, req_pending, stopVars, supVars, kaVars, evVars,
                   pullHist, h_flush, h_fwd, h_restarted>>

\* What handle_pull_resp makes of the reply: the error code of the TX_ACK to
\* send, or None when the handler returns an error.
TxAckOf(reply) ==
    IF reply.kind # "tx_ack" THEN None
    ELSE IF Len(reply.items) # 1 THEN None
    ELSE Some(TxAckError(reply.items[1]))

\* The reply read is the oldest one unread: the replies come in the order of
\* the commands.  It is answered with a TX_ACK when it holds one item.
UdpPollReply(reply) ==
    /\ ~proc_down
    /\ UNCHANGED codecVars
    /\ UNCHANGED h_discarded
    /\ UNCHANGED h_late
    /\ UNCHANGED h_unrep
    /\ UNCHANGED h_silent
    /\ h_unread' = h_unread - 1
    /\ UNCHANGED h_owed
    /\ UNCHANGED h_push_ok
    /\ warned' = IF reply.kind # "tx_ack" THEN Some("decode DownlinkTxAck error")
                 ELSE IF Len(reply.items) # 1 THEN Some("")
                 ELSE None
    /\ upc = "poll"
    /\ req_pending' = FALSE
    /\ \E ok \in BOOLEAN :
        out' = IF TxAckOf(reply) = None THEN <<>>
               ELSE <<UdpOut(TxAck_header([random_token |-> pull_resp_token[1],
                                           gateway_id |-> GatewayId]),
                             [txpk_ack |-> [error |-> TxAckOf(reply)[1]]], ok)>>
    /\ met' = IF TxAckOf(reply) = None THEN <<>>
              ELSE incr_udp_sent(MetricsKey(TxAckOf(reply)[1]),
                                 TxAck_header([random_token |-> pull_resp_token[1],
                                               gateway_id |-> GatewayId]), TRUE)
    /\ upc' = "check"
    /\ pull_resp_token' = None
    /\ UNCHANGED <<confVars, stateVars, stopVars, supVars, kaVars, evVars, pullHist,
                   h_flush, h_fwd, h_restarted>>

(* ------------------------------ events_loop ----------------------------- *)

\* Every step of events_loop that follows "next" is one round of the reader
\* (the 100 ms poll and the event e it yields), the check of the stop signal
\* and the first step of the handling of e.

\* stop_receive.recv_timeout(0) finds the Stop: the loop returns, e is dropped.
EvStop(e) ==
    /\ ~proc_down
    /\ UNCHANGED codecVars
    /\ h_discarded' = (e.kind \in {"up", "stats"})
    /\ UNCHANGED h_late
    /\ UNCHANGED h_unrep
    /\ UNCHANGED h_silent
    /\ UNCHANGED h_unread
    /\ UNCHANGED h_owed
    /\ UNCHANGED h_push_ok
    /\ warned' = None
    /\ epc = "next"
    /\ stop_events
    /\ stop_events' = FALSE
    /\ epc' = "done"
    /\ out' = <<>>
    /\ met' = <<>>
    /\ UNCHANGED <<confVars, stateVars, req_pending, stop_udp, supVars, kaVars, udpVars,
                   stat_rxfw, pd_sent, pd_acked, pullHist, h_flush, h_fwd, h_restarted>>

\* A timeout, a read error or an event that is neither an uplink nor stats.
EvSkip(e) ==
    /\ ~proc_down
    /\ UNCHANGED codecVars
    /\ UNCHANGED h_discarded
    /\ UNCHANGED h_late
    /\ UNCHANGED h_unrep
    /\ UNCHANGED h_silent
    /\ UNCHANGED h_unread
    /\ UNCHANGED h_owed
    /\ UNCHANGED h_push_ok
    /\ warned' = None
    /\ epc = "next"
    /\ ~stop_events
    /\ e.kind \in {"timeout", "error", "other"}
    /\ epc' = "next"
    /\ out' = <<>>
    /\ met' = <<>>
    /\ UNCHANGED <<confVars, stateVars, req_pending, stopVars, supVars, kaVars, udpVars,
                   stat_rxfw, pd_sent, pd_acked, pullHist, h_flush, h_fwd, h_restarted>>

\* events_up up to the send: "drop" when the filter or the translation ends
\* it, "panic" when the translation panics, "send" otherwise.
UpOutcome(up, crc_ok, crc_invalid, crc_missing) ==
    IF ~PassesFilter(up, crc_ok, crc_invalid, crc_missing) THEN "drop"
    ELSE IF RXPK_from_proto(up).panic THEN "panic"
    ELSE IF ~RXPK_from_proto(up).ok THEN "drop"
    ELSE "send"

\* An uplink: filtered, translated and sent as a PUSH_DATA with a new token.
EvUp(e) ==
    /\ ~proc_down
    /\ UNCHANGED codecVars
    /\ UNCHANGED h_discarded
    /\ UNCHANGED h_late
    /\ UNCHANGED h_unrep
    /\ UNCHANGED h_silent
    /\ UNCHANGED h_unread
    /\ scenario = "acks" => OwedTotal(h_owed) < MaxCount
    /\ warned' = None
    /\ epc = "next"
    /\ ~stop_events
    /\ e.kind = "up"
    /\ push_data_sent < MaxCount
    /\ rxfw < MaxCount
    /\ LET o == UpOutcome(e, forward_crc_ok, forward_crc_invalid, forward_crc_missing) IN
        \/ /\ o = "drop"
           /\ epc' = "next"
           /\ out' = <<>>
           /\ met' = <<>>
           /\ UNCHANGED <<push_data_token, h_fwd, h_restarted, h_push_ok, h_owed>>
        \/ /\ o = "panic"
           /\ epc' = "panicked"
           /\ out' = <<>>
           /\ met' = <<>>
           /\ UNCHANGED <<push_data_token, h_fwd, h_restarted, h_push_ok, h_owed>>
        \/ /\ o = "send"
           /\ epc' = "up_rxfw"
           /\ \E t \in PushTokens(scenario), ok \in PushSendOutcomes(scenario) :
                /\ push_data_token' = SetToken(t).stored
                /\ out' = <<UdpOut(PushData_header([random_token |-> SetToken(t).returned,
                                                    gateway_id |-> GatewayId]),
                                   [rxpk |-> <<RXPK_from_proto(e).v>>, stat |-> None], ok)>>
                /\ h_push_ok' = ok
                /\ h_owed' = OwedAfterSend(scenario, t, ok, h_owed)
           /\ met' = <<>>
           /\ h_fwd' = h_fwd + 1
           /\ UNCHANGED h_restarted
    /\ UNCHANGED <<confVars, push_data_sent, push_data_acked, pull_data_token,
                   pull_data_token_acked, rxfw, req_pending, stopVars, supVars, kaVars,
                   udpVars, stat_rxfw, pd_sent, pd_acked, pullHist, h_flush>>

\* incr_rxfw in events_up.
EvUpRxfw ==
    /\ ~proc_down
    /\ UNCHANGED codecVars
    /\ UNCHANGED h_discarded
    /\ UNCHANGED h_late
    /\ UNCHANGED h_unrep
    /\ UNCHANGED h_silent
    /\ UNCHANGED h_unread
    /\ UNCHANGED h_owed
    /\ UNCHANGED h_push_ok
    /\ warned' = None
    /\ epc = "up_rxfw"
    /\ rxfw' = rxfw + 1
    /\ epc' = "up_sent"
    /\ out' = <<>>
    /\ met' = <<>>
    /\ UNCHANGED <<confVars, push_data_token, push_data_sent, push_data_acked,
                   pull_data_token, pull_data_token_acked, req_pending, stopVars, supVars,
                   kaVars, udpVars, stat_rxfw, pd_sent, pd_acked, pullHist, h_flush, h_fwd, h_restarted>>

\* incr_push_data_sent, the end of events_up and of events_stats.
EvIncrSent ==
    /\ ~proc_down
    /\ UNCHANGED codecVars
    /\ UNCHANGED h_discarded
    /\ UNCHANGED h_late
    /\ UNCHANGED h_unrep
    /\ UNCHANGED h_silent
    /\ UNCHANGED h_unread
    /\ UNCHANGED h_owed
    /\ h_push_ok' = TRUE
    /\ warned' = None
    /\ epc \in {"up_sent", "st_incr"}
    /\ push_data_sent' = push_data_sent + 1
    /\ epc' = "next"
    /\ stat_rxfw' = 0
    /\ pd_sent' = 0
    /\ pd_acked' = 0
    /\ h_flush' = NoFlush
    /\ out' = <<>>
    /\ met' = incr_udp_sent(IF epc = "up_sent" THEN "PUSH_DATA_RXPK" ELSE "PUSH_DATA_STATS",
                            PushData_header([random_token |-> push_data_token,
                                             gateway_id |-> GatewayId]), TRUE)
    /\ UNCHANGED <<h_fwd, h_restarted>>
    /\ UNCHANGED <<confVars, push_data_token, push_data_acked, pull_data_token,
                   pull_data_token_acked, rxfw, req_pending, stopVars, supVars, kaVars,
                   udpVars, pullHist>>

\* GetAndReset with the reset forgotten.
GetAndReset_NoReset(counter) == [out |-> counter, counter |-> counter]

\* get_and_reset_rxfw, get_and_reset_push_data_sent, get_and_reset_push_data_acked.
GetAndReset(counter) == [out |-> counter, counter |-> 0]

\* Gateway stats: Stat::from_proto, then stat.rxfw = get_and_reset_rxfw().
EvStats(e) ==
    /\ ~proc_down
    /\ UNCHANGED codecVars
    /\ UNCHANGED h_discarded
    /\ UNCHANGED h_late
    /\ h_unrep' = h_unrep + rxfw - GetAndReset(rxfw).counter
    /\ UNCHANGED h_silent
    /\ UNCHANGED h_unread
    /\ UNCHANGED h_owed
    /\ UNCHANGED h_push_ok
    /\ warned' = None
    /\ epc = "next"
    /\ ~stop_events
    /\ e.kind = "stats"
    /\ stat_rxfw' = GetAndReset(rxfw).out
    /\ rxfw' = GetAndReset(rxfw).counter
    /\ h_flush' = [NoFlush EXCEPT !.rxfw = rxfw, !.fwd = h_fwd]
    /\ h_fwd' = 0
    /\ UNCHANGED h_restarted
    /\ pd_sent' = 0
    /\ pd_acked' = 0
    /\ epc' = "st_sent"
    /\ out' = <<>>
    /\ met' = <<>>
    /\ UNCHANGED <<confVars, push_data_token, push_data_sent, push_data_acked,
                   pull_data_token, pull_data_token_acked, req_pending, stopVars, supVars,
                   kaVars, udpVars, pullHist>>

\* pd_sent = get_and_reset_push_data_sent().
EvStatsSent ==
    /\ ~proc_down
    /\ UNCHANGED codecVars
    /\ UNCHANGED h_discarded
    /\ UNCHANGED h_late
    /\ UNCHANGED h_unrep
    /\ UNCHANGED h_silent
    /\ UNCHANGED h_unread
    /\ UNCHANGED h_owed
    /\ UNCHANGED h_push_ok
    /\ warned' = None
    /\ epc = "st_sent"
    /\ pd_sent' = GetAndReset(push_data_sent).out
    /\ push_data_sent' = GetAndReset(push_data_sent).counter
    /\ h_flush' = [h_flush EXCEPT !.sent = push_data_sent]
    /\ UNCHANGED <<h_fwd, h_restarted>>
    /\ epc' = "st_acked"
    /\ out' = <<>>
    /\ met' = <<>>
    /\ UNCHANGED <<confVars, push_data_token, push_data_acked, pull_data_token,
                   pull_data_token_acked, rxfw, req_pending, stopVars, supVars, kaVars,
                   udpVars, stat_rxfw, pd_acked, pullHist>>

\* pd_acked = get_and_reset_push_data_acked().
EvStatsAcked ==
    /\ ~proc_down
    /\ UNCHANGED codecVars
    /\ UNCHANGED h_discarded
    /\ UNCHANGED h_late
    /\ UNCHANGED h_unrep
    /\ UNCHANGED h_silent
    /\ UNCHANGED h_unread
    /\ UNCHANGED h_owed
    /\ UNCHANGED h_push_ok
    /\ warned' = None
    /\ epc = "st_acked"
    /\ pd_acked' = GetAndReset(push_data_acked).out
    /\ push_data_acked' = GetAndReset(push_data_acked).counter
    /\ h_flush' = [h_flush EXCEPT !.acked = push_data_acked]
    /\ UNCHANGED <<h_fwd, h_restarted>>
    /\ epc' = "st_send"
    /\ out' = <<>>
    /\ met' = <<>>
    /\ UNCHANGED <<confVars, push_data_token, push_data_sent, pull_data_token,
                   pull_data_token_acked, rxfw, req_pending, stopVars, supVars, kaVars,
                   udpVars, stat_rxfw, pd_sent, pullHist>>

\* StatOf that leaves rxfw at the 0 of Stat::from_proto.
StatOf_RxfwNotSet(s_rxfw, s_sent, s_acked) == [rxfw |-> 0, ackr |-> Ackr(s_sent, s_acked)]

\* StatOf with push_data_sent taken for rxfw.
StatOf_SentAsRxfw(s_rxfw, s_sent, s_acked) == [rxfw |-> s_sent, ackr |-> Ackr(s_sent, s_acked)]

\* The stat of events_stats: rxfw and ackr filled in from the locals.
StatOf(s_rxfw, s_sent, s_acked) == [rxfw |-> s_rxfw, ackr |-> Ackr(s_sent, s_acked)]

\* The PUSH_DATA with the stat, sent with a new token.
EvStatsSend ==
    /\ ~proc_down
    /\ UNCHANGED codecVars
    /\ UNCHANGED h_discarded
    /\ UNCHANGED h_late
    /\ h_unrep' = h_unrep - StatOf(stat_rxfw, pd_sent, pd_acked).rxfw
    /\ UNCHANGED h_silent
    /\ UNCHANGED h_unread
    /\ scenario = "acks" => OwedTotal(h_owed) < MaxCount
    /\ warned' = None
    /\ epc = "st_send"
    /\ \E t \in PushTokens(scenario), ok \in PushSendOutcomes(scenario) :
        /\ push_data_token' = SetToken(t).stored
        /\ out' = <<UdpOut(PushData_header([random_token |-> SetToken(t).returned,
                                            gateway_id |-> GatewayId]),
                           [rxpk |-> <<>>, stat |-> Some(StatOf(stat_rxfw, pd_sent, pd_acked))],
                           ok)>>
        /\ h_push_ok' = ok
        /\ h_owed' = OwedAfterSend(scenario, t, ok, h_owed)
    /\ met' = <<>>
    /\ epc' = "st_incr"
    /\ UNCHANGED <<confVars, push_data_sent, push_data_acked, pull_data_token,
                   pull_data_token_acked, rxfw, req_pending, stopVars, supVars, kaVars,
                   udpVars, stat_rxfw, pd_sent, pd_acked, pullHist, h_flush, h_fwd, h_restarted>>

(* ---------------------------- specification ----------------------------- *)

Next ==
    \/ SupStart
    \/ SupStartPanic
    \/ SupJoin
    \/ MainJoin
    \/ KaCompare
    \/ KaSend
    \/ UdpCheckStop
    \/ UdpRecvTimeout
    \/ \E d \in Datagrams(scenario) : UdpIgnore(d)
    \/ \E d \in Datagrams(scenario) : UdpPushAck(d)
    \/ UdpIncrAcked
    \/ \E d \in Datagrams(scenario) : UdpPullAck(d)
    \/ \E d \in Datagrams(scenario) : UdpPullResp(d)
    \/ UdpPollTimeout
    \/ \E reply \in Replies : UdpPollReply(reply)
    \/ \E e \in Events(scenario) : EvStop(e)
    \/ \E e \in Events(scenario) : EvSkip(e)
    \/ \E e \in Events(scenario) : EvUp(e)
    \/ EvUpRxfw
    \/ EvIncrSent
    \/ \E e \in Events(scenario) : EvStats(e)
    \/ EvStatsSent
    \/ EvStatsAcked
    \/ EvStatsSend

Spec == Init /\ [][Next]_vars

\* The scheduling of the program: every thread that can take a step
\* eventually takes one (blocking calls return within their timeouts).
KaStep == KaCompare \/ KaSend

UdpStep ==
    \/ UdpCheckStop
    \/ UdpRecvTimeout
    \/ UdpIncrAcked
    \/ UdpPollTimeout
    \/ \E d \in Datagrams(scenario) : UdpIgnore(d) \/ UdpPushAck(d) \/ UdpPullAck(d) \/ UdpPullResp(d)
    \/ \E reply \in Replies : UdpPollReply(reply)

EvStep ==
    \/ EvUpRxfw
    \/ EvIncrSent
    \/ EvStatsSent
    \/ EvStatsAcked
    \/ EvStatsSend
    \/ \E e \in Events(scenario) : EvStop(e) \/ EvSkip(e) \/ EvUp(e) \/ EvStats(e)

SupStep == SupStart \/ SupJoin \/ MainJoin

FairSpec ==
    /\ Spec
    /\ WF_vars(KaStep)
    /\ WF_vars(UdpStep)
    /\ WF_vars(EvStep)
    /\ WF_vars(SupStep)

(* --------------------------- the codec on its own ----------------------- *)

\* The txpk of the calls of TXPK::to_proto: every combination of imme (absent,
\* true, false), tmst and tmms (absent or present).
TimingTxpks ==
    {[imme |-> imme, tmst |-> tmst, tmms |-> tmms, modu |-> "LORA",
      datr |-> LoRa(7, 125000), data_ok |-> TRUE] :
        imme \in {None, Some(TRUE), Some(FALSE)},
        tmst \in {None, Some(0), Some(5000000), Some(2147483647)},
        tmms \in {None, Some(0), Some(1234), Some(2000000999)}}

\* The values of the bytes of the frames the decoders are called on.
ByteSamples == {0, 1, 129, 255}

\* The frames of the calls of PushAck::from_bytes and PullAck::from_bytes:
\* 0 to 5 bytes and 12 bytes long, with every version and identifier around
\* the ones in use.
AckFrames ==
    {[b |-> SubSeq(<<ver, hi, lo, id>>, 1, IF size < 4 THEN size ELSE 4),
      size |-> size, json |-> NoJson] :
        ver \in {0, 1, PROTOCOL_VERSION, 3, 255}, hi \in ByteSamples, lo \in ByteSamples,
        id \in {ID_PUSH_DATA, ID_PUSH_ACK, ID_PULL_DATA, ID_PULL_RESP, ID_PULL_ACK,
                 ID_TX_ACK, 255},
        size \in {0, 1, 2, 3, 4, 5, 12}}

\* The PushData of the calls of PushData::to_bytes: one rxpk, of a LoRa or FSK
\* uplink with or without GPS time and with a known or unknown code rate, or
\* a stat and no rxpk.
PushDataInputs ==
    {[random_token |-> TokenStep, gateway_id |-> GatewayId,
      payload |-> [rxpk |-> <<RXPK_from_proto([Uplink(TRUE, TRUE, "CRC_OK", 4, modu)
                                                EXCEPT !.gps = gps,
                                                       !.code_rate = cr]).v>>,
                   stat |-> None]] :
        modu \in {"lora", "fsk"},
        gps \in {None, Some([seconds |-> 1, nanos |-> 234567890])},
        cr \in {"Cr45", "Cr46", "Cr47", "Cr48", "CrUndefined", "CrLi45"}}
    \cup {[random_token |-> TokenStep, gateway_id |-> GatewayId,
           payload |-> [rxpk |-> <<>>, stat |-> Some(StatOf(rxfw_, sent_, acked_))]] :
            rxfw_ \in 0..MaxCount, sent_ \in 0..MaxCount, acked_ \in 0..MaxCount}

\* The text between two alphabetic characters of a datarate string.
Segments == {<<>>, <<"7">>, <<"1", "2", "5">>, <<"+", "7">>, <<"-", "7">>}

\* The JSON values given as datr: strings of one to five segments parted by
\* the letters S, F, B, W, strings of six segments, numbers and null.
DatarateJsons ==
    {JStr(a) : a \in Segments}
    \cup {JStr(a \o <<"S">> \o b \o <<"F">> \o c) : a, b, c \in Segments}
    \cup {JStr(a \o <<"S">> \o b \o <<"F">> \o c \o <<"B">> \o d) : a, b, c, d \in Segments}
    \cup {JStr(a \o <<"S">> \o b \o <<"F">> \o c \o <<"B">> \o d \o <<"W">> \o e) :
            a, b, c, d, e \in Segments}
    \cup {JStr(<<"S", "F">> \o c \o <<"B", "W">> \o e \o <<"k">> \o f) :
            c, e, f \in Segments}
    \cup {JNum(neg, frac, n) : neg, frac \in BOOLEAN, n \in {0, 1, 50000, 2147483647}}
    \cup {JNull}

CodecInputs ==
    {[call |-> "TXPK::to_proto", input |-> t] : t \in TimingTxpks}
    \cup {[call |-> c, input |-> d] :
            c \in {"PushAck::from_bytes", "PullAck::from_bytes"}, d \in AckFrames}
    \cup {[call |-> "PushData::to_bytes", input |-> pd] : pd \in PushDataInputs}
    \cup {[call |-> "DataRate::deserialize", input |-> v] : v \in DatarateJsons}

CodecInit ==
    /\ ProgInit
    /\ scenario = "keepalive"
    /\ keepalive_max_failures = 0
    /\ cin \in CodecInputs
    /\ cres = None

\* The variables of the running program, which a call of the codec leaves alone.
progVars == <<confVars, stateVars, req_pending, stopVars, supVars, kaVars, udpVars, evVars,
              out, met, warned, pullHist, h_flush, h_fwd, h_restarted, h_push_ok, h_owed, h_unread, h_silent, h_unrep, h_late, h_discarded>>

CallToProto ==
    /\ cin.call = "TXPK::to_proto"
    /\ cres = None
    /\ cres' = Some(TXPK_to_proto(cin.input, TokenStep, GatewayId))
    /\ UNCHANGED <<cin, progVars>>

CallPushAckFromBytes ==
    /\ cin.call = "PushAck::from_bytes"
    /\ cres = None
    /\ cres' = Some(PushAck_from_bytes(cin.input))
    /\ UNCHANGED <<cin, progVars>>

CallPullAckFromBytes ==
    /\ cin.call = "PullAck::from_bytes"
    /\ cres = None
    /\ cres' = Some(PullAck_from_bytes(cin.input))
    /\ UNCHANGED <<cin, progVars>>

CallPushDataToBytes ==
    /\ cin.call = "PushData::to_bytes"
    /\ cres = None
    /\ cres' = Some(PushData_to_bytes(cin.input))
    /\ UNCHANGED <<cin, progVars>>

CallDataRateDeserialize ==
    /\ cin.call = "DataRate::deserialize"
    /\ cres = None
    /\ cres' = Some(DataRate_deserialize(cin.input))
    /\ UNCHANGED <<cin, progVars>>

CodecNext ==
    \/ CallToProto
    \/ CallDataRateDeserialize
    \/ CallPushDataToBytes
    \/ CallPushAckFromBytes
    \/ CallPullAckFromBytes

CodecSpec == CodecInit /\ [][CodecNext]_vars

(* -------------------------------- claims -------------------------------- *)

\* The steps of pull_data_loop: the comparison that opens a tick, and the send.
TickStep == kpc = "cmp" /\ kpc' # "cmp"
SendStep == kpc = "send" /\ kpc' # "send"

\* The token in bytes 1 and 2 of a datagram or of a frame header.
TokenIn(b) == b[2] * 256 + b[3]

\* The token of an optional token, 0 (the value State starts with) for None.
TokenOr0(o) == IF o = None THEN 0 ELSE o[1]

\* C1: at every keepalive tick missed_acks becomes 0 when pull_data_token
\* equals pull_data_token_acked and its previous value plus 1 otherwise; no
\* other step of the instance changes missed_acks (a new instance starts its
\* own pull_data_loop with missed_acks = 0).
C1_MissedAcksAtTick ==
    [][IF TickStep
       THEN missed_acks' = IF pull_data_token = pull_data_token_acked
                           THEN 0 ELSE missed_acks + 1
       ELSE missed_acks' = missed_acks \/ (spc = "setup" /\ missed_acks' = 0)]_vars

\* Two ticks in a row have found the PULL_DATA unacknowledged.
C1_Witness == kpc = "send" /\ missed_acks = 2 /\ h_prev_pull # None

\* C2: the keepalive activity broadcasts Stop and exits at a tick iff
\* keepalive_max_failures # 0 and missed_acks, after the update of that tick,
\* exceeds it; on that tick nothing is sent and pull_data_token is unchanged;
\* on every other tick one PULL_DATA is sent, carrying the token stored in
\* pull_data_token by that tick.
C2_StopOrSend ==
    [][/\ TickStep =>
            /\ kpc' = "done" <=> (keepalive_max_failures # 0
                                  /\ missed_acks' > keepalive_max_failures)
            /\ kpc' = "done" => stop_udp' /\ stop_events'
            /\ kpc' # "done" => kpc' = "send" /\ UNCHANGED stopVars
            /\ out' = <<>>
            /\ pull_data_token' = pull_data_token
       /\ SendStep =>
            /\ kpc' = "cmp"
            /\ Len(out') = 1
            /\ out'[1].chan = "udp"
            /\ Len(out'[1].hdr) = 12
            /\ out'[1].hdr[4] = 2
            /\ TokenIn(out'[1].hdr) = pull_data_token'
       /\ (kpc' = "done" /\ kpc # "done") => TickStep
       /\ (stop_udp' /\ ~stop_udp) \/ (stop_events' /\ ~stop_events) =>
            TickStep /\ kpc' = "done"
       /\ ~SendStep => pull_data_token' = pull_data_token \/ spc = "setup"]_vars

\* The Stop has just been broadcast, after more misses than allowed.
C2_Witness ==
    /\ kpc = "done"
    /\ stop_udp
    /\ stop_events
    /\ keepalive_max_failures # 0
    /\ missed_acks = keepalive_max_failures + 1

\* C3: whenever the keepalive activity has broadcast Stop, udp-receive and
\* events both eventually observe it and exit.
C3_StopObserved == (kpc = "done") ~> (upc = "done" /\ epc = "done")

\* C4: each time the three activities of an instance have all ended, a new
\* instance is eventually started.
C4_Restarted == (Ended(upc) /\ Ended(epc) /\ Ended(kpc)) ~> (spc = "join_udp" /\ kpc = "cmp")

\* C5: no input makes an activity of a running instance end abnormally: an
\* activity ends only by observing or broadcasting the stop signal.
C5_NoAbnormalEnd == upc # "panicked" /\ epc # "panicked" /\ kpc # "panicked"

\* C6: a well-formed PULL_ACK (4 bytes, version 2, identifier 4) sets
\* pull_data_token_acked to its token, whatever pull_data_token is, and
\* changes no other field; a malformed datagram with identifier 4 changes
\* no field of the state.
C6_PullAckStored ==
    [][(upc = "recv" /\ upc' # "recv") => \A d \in Datagrams(scenario) :
        (d.size >= 4 /\ d.b[4] = 4 /\ UdpPullAck(d)) =>
            IF d.size = 4 /\ d.b[1] = 2
            THEN /\ pull_data_token_acked' = TokenIn(d.b)
                 /\ UNCHANGED <<push_data_token, push_data_sent, push_data_acked,
                                pull_data_token, rxfw>>
            ELSE UNCHANGED stateVars]_vars

\* A PULL_ACK with another token than pull_data_token was received and stored.
C6_Witness ==
    /\ upc = "check"
    /\ h_ack # None
    /\ h_pull # None
    /\ h_ack # h_pull
    /\ pull_data_token_acked = h_ack[1]
    /\ pull_data_token_acked # pull_data_token

LateAck == h_ack # None /\ h_ack = h_prev_pull /\ h_ack # h_pull

\* C8 as claimed: a late PULL_ACK received before a tick makes that tick
\* reset missed_acks to 0.
C8_LateAckResets == [][(TickStep /\ LateAck) => missed_acks' = 0]_vars

\* C8 as amended: a late PULL_ACK that is the last PULL_ACK received before a
\* tick makes that tick add 1 to missed_acks.
C8_LateAckCountsAsMiss == [][(TickStep /\ LateAck) => missed_acks' = missed_acks + 1]_vars

\* A tick has counted a miss after a late PULL_ACK, which had followed a
\* PULL_ACK with the current token.
C8_Witness == kpc = "send" /\ LateAck /\ h_pull_acked /\ missed_acks = 1

\* C9: a datagram with identifier 1 makes push_data_acked grow by exactly 1
\* when it is a well-formed PUSH_ACK with the current push_data_token, and
\* otherwise changes no counter and no token.
C9_PushAckCounted ==
    [][/\ (upc = "recv" /\ upc' # "recv") => \A d \in Datagrams(scenario) :
            (d.size >= 4 /\ d.b[4] = 1 /\ UdpPushAck(d)) =>
                /\ UNCHANGED stateVars
                /\ upc' = IF d.size = 4 /\ d.b[1] = 2 /\ TokenIn(d.b) = push_data_token
                          THEN "incr_acked" ELSE "check"
       /\ (upc = "incr_acked" /\ upc' # upc) =>
            /\ upc' = "check"
            /\ push_data_acked' = push_data_acked + 1
            /\ UNCHANGED <<push_data_token, push_data_sent, pull_data_token,
                           pull_data_token_acked, rxfw>>
       /\ (upc' = "incr_acked" /\ upc # upc') =>
            \E d \in Datagrams(scenario) : d.size >= 4 /\ d.b[4] = 1 /\ UdpPushAck(d)]_vars

\* A PUSH_ACK with the current token has been counted.
C9_Witness == upc = "check" /\ push_data_acked = 1 /\ push_data_sent = 1 /\ scenario = "uplink"

\* The steps of events_stats: the send of the stat and the end of the handler.
StatSendStep == epc = "st_send" /\ epc' = "st_incr"
StatsDoneStep == epc = "st_incr" /\ epc' = "next"

\* C10 as claimed: when the handling of a stats event ends, push_data_sent,
\* push_data_acked and rxfw are all 0.
C10_AllZeroAfterStats ==
    [][StatsDoneStep => push_data_sent' = 0 /\ push_data_acked' = 0 /\ rxfw' = 0]_vars

\* C10 as amended: when the handling of a stats event ends, rxfw is 0 and
\* push_data_sent is 1 (the PUSH_DATA of the stat itself); push_data_acked
\* was reset to 0 by the flush; and the stat sent carries the values the
\* counters held when the flush reset them: rxfw as it was, push_data_sent
\* and push_data_acked as the ratio ackr (0 when push_data_sent was 0).
C10_FlushedAfterStats ==
    [][/\ StatsDoneStep => rxfw' = 0 /\ push_data_sent' = 1
       /\ (epc = "st_acked" /\ epc' = "st_send") => push_data_acked' = 0
       /\ StatSendStep =>
            /\ Len(out') = 1
            /\ out'[1].payload.stat # None
            /\ out'[1].payload.stat[1].rxfw = h_flush.rxfw
            /\ out'[1].payload.stat[1].ackr =
                    IF h_flush.sent = 0 THEN [num |-> 0, den |-> 1]
                    ELSE [num |-> 100 * h_flush.acked, den |-> h_flush.sent]]_vars

\* A stat was sent for counters that were not 0, and the counters are reset.
C10_Witness ==
    /\ epc = "st_incr"
    /\ h_flush.rxfw = 2
    /\ h_flush.sent = 2
    /\ h_flush.acked = 1
    /\ rxfw = 0
    /\ push_data_sent = 0

\* C11: a stats flush reads and resets push_data_sent and push_data_acked at
\* one instant: between the reset of push_data_sent and the reset of
\* push_data_acked no PUSH_ACK is counted.
C11_FlushAtomic ==
    [][(epc = "st_acked" /\ epc' = "st_acked") => push_data_acked' = push_data_acked]_vars

\* The forward flag configured for the CRC status crc.
ForwardFlag(crc) ==
    CASE crc = "CRC_OK" -> forward_crc_ok
      [] crc = "BAD_CRC" -> forward_crc_invalid
      [] crc = "NO_CRC" -> forward_crc_missing

\* C12: an uplink with CRC status s is forwarded (one PUSH_DATA with a single
\* rxpk and a newly stored push_data_token, then rxfw + 1, then
\* push_data_sent + 1 and the PUSH_DATA_RXPK metrics) only if the flag of s is
\* true; when the flag is false nothing is sent and the tokens, the counters
\* and the metrics are unchanged.
C12_ForwardOnlyIfFlag ==
    [][/\ (epc = "next" /\ ~stop_events) => \A e \in Events(scenario) :
            (e.kind = "up" /\ e.rx_info /\ EvUp(e)) =>
                /\ ~ForwardFlag(e.crc) =>
                        out' = <<>> /\ met' = <<>> /\ epc' = "next" /\ UNCHANGED stateVars
                /\ out' # <<>> =>
                        /\ ForwardFlag(e.crc)
                        /\ Len(out') = 1
                        /\ out'[1].chan = "udp"
                        /\ out'[1].hdr[4] = 0
                        /\ Len(out'[1].payload.rxpk) = 1
                        /\ out'[1].payload.stat = None
                        /\ push_data_token' = TokenIn(out'[1].hdr)
                        /\ met' = <<>>
                        /\ epc' = "up_rxfw"
                        /\ UNCHANGED <<rxfw, push_data_sent>>
       /\ (epc' = "up_rxfw" /\ epc # "up_rxfw") => epc = "next" /\ out' # <<>>
       /\ (epc = "up_rxfw" /\ epc' # epc) =>
            /\ epc' = "up_sent"
            /\ rxfw' = rxfw + 1
            /\ UNCHANGED <<push_data_token, push_data_sent>>
       /\ (epc = "up_sent" /\ epc' # epc) =>
            /\ epc' = "next"
            /\ push_data_sent' = push_data_sent + 1
            /\ UNCHANGED <<push_data_token, rxfw>>
            /\ Len(met') = 2
            /\ met'[1] = [name |-> "udp_sent_count", type |-> "PUSH_DATA_RXPK",
                          by |-> 1, body |-> FALSE]
            /\ met'[2].name = "udp_sent_bytes"
            /\ met'[2].type = "PUSH_DATA_RXPK"]_vars

\* An uplink with an invalid CRC has been sent on, forward_crc_invalid being
\* true and forward_crc_ok false.
C12_Witness ==
    /\ epc = "up_rxfw"
    /\ forward_crc_invalid
    /\ ~forward_crc_ok
    /\ Len(out) = 1
    /\ out[1].chan = "udp"
    /\ out[1].hdr[4] = 0
    /\ Len(out[1].payload.rxpk) = 1
    /\ push_data_token = TokenIn(out[1].hdr)
    /\ push_data_token # 0

\* TRUE when the frame f handed to the UDP socket is a PUSH_DATA with a stat.
IsStatFrame(f) == f.chan = "udp" /\ f.hdr[4] = 0 /\ f.payload.stat # None

IsTxAck(f) == f.chan = "udp" /\ f.hdr[4] = 5

\* C14: every TX_ACK sent carries the token of the PULL_RESP whose handling
\* produced it, and at most one TX_ACK is sent per PULL_RESP received: the
\* handler keeps the token of the PULL_RESP it received, and a TX_ACK is sent
\* only by the step that ends that handler, with that token.
C14_TxAckEchoesToken ==
    [][/\ (upc = "recv" /\ upc' = "poll") => \A d \in Datagrams(scenario) :
            (d.size >= 4 /\ d.b[4] = 3 /\ UdpPullResp(d)) =>
                pull_resp_token' = Some(TokenIn(d.b))
       /\ (upc' = "poll" /\ upc # "poll") => upc = "recv"
       /\ (upc = "poll" /\ upc' = "poll") => pull_resp_token' = pull_resp_token
       /\ (\E i \in 1..Len(out') : IsTxAck(out'[i])) =>
            /\ upc = "poll"
            /\ upc' = "check"
            /\ Len(out') = 1
            /\ pull_resp_token # None
            /\ TokenIn(out'[1].hdr) = pull_resp_token[1]]_vars

\* A TX_ACK with the token of the PULL_RESP has just been sent.
C14_Witness ==
    /\ upc = "check"
    /\ Len(out) = 1
    /\ IsTxAck(out[1])
    /\ TokenIn(out[1].hdr) = TokenStep

\* TRUE when the PULL_RESP d decodes and its txpk translates to a downlink.
Translatable(d) ==
    /\ PullResp_from_bytes(d).ok
    /\ TXPK_to_proto(PullResp_from_bytes(d).v.payload.txpk,
                     PullResp_from_bytes(d).v.random_token, GatewayId).ok

\* C15: when the command socket yields no reply within 100 ms, or a reply
\* without exactly one item, no TX_ACK is sent, no state field changes, and
\* udp_receive_loop goes on: a later PULL_RESP that translates is sent on to
\* the concentrator like the first.
C15_NoReplyHarmless ==
    [][/\ UdpPollTimeout => out' = <<>> /\ upc' = "check" /\ UNCHANGED stateVars
       /\ upc = "poll" => \A reply \in Replies :
            (reply.kind = "tx_ack" /\ Len(reply.items) # 1 /\ UdpPollReply(reply)) =>
                out' = <<>> /\ upc' = "check" /\ UNCHANGED stateVars
       /\ (upc = "recv" /\ req_pending) => \A d \in Datagrams(scenario) :
            (d.size >= 4 /\ d.b[4] = 3 /\ Translatable(d) /\ UdpPullResp(d)) =>
                upc' = "poll"]_vars

\* C16: with keepalive_max_failures = 0 the keepalive never broadcasts Stop
\* and never ends, and start never gets to restart the instance, however
\* many PULL_DATA in a row go unacknowledged.
C16_NeverStopsOnZero ==
    keepalive_max_failures = 0 =>
        /\ kpc # "done"
        /\ ~stop_udp
        /\ ~stop_events
        /\ upc # "done"
        /\ epc # "done"
        /\ spc \in {"setup", "join_udp", "panicked"}
        /\ spc = "setup" => kpc = "none"

\* With keepalive_max_failures = 0, as many misses in a row as the model
\* counts, and another PULL_DATA is about to be sent.
C16_Witness ==
    /\ keepalive_max_failures = 0
    /\ missed_acks = MaxMissed
    /\ kpc = "send"
    /\ h_prev_pull # None
    /\ spc = "join_udp"

(* ------------------------------- C17 ------------------------------------ *)

\* A thread's position that is not running: never spawned, or returned.
NotRunning(pc) == pc \in {"none", "done"}

\* C17: at most one forwarder instance is active per server entry: start spawns
\* the three threads of an instance only when the three threads of the previous
\* instance have all returned, and nothing else sets a returned thread going.
C17_OneInstanceAtATime ==
    [][/\ (spc = "setup" /\ spc' = "join_udp")
            => NotRunning(upc) /\ NotRunning(epc) /\ NotRunning(kpc)
       /\ ((NotRunning(upc) /\ upc' # upc) \/ (NotRunning(epc) /\ epc' # epc)
                \/ (NotRunning(kpc) /\ kpc' # kpc))
            => /\ spc = "setup" /\ spc' = "join_udp"
               /\ upc' = "check" /\ epc' = "next" /\ kpc' = "cmp"]_vars

\* A second instance is running after the three threads of the first returned.
C17_Witness == h_restarted /\ spc = "join_udp" /\ upc = "recv" /\ epc = "next" /\ kpc = "send"

(* ------------------------------- C18 ------------------------------------ *)

\* The label the received-metrics are to carry for a datagram whose byte 3 is id.
ReceivedLabel(id) ==
    CASE id = 1 -> "PUSH_ACK"
      [] id = 3 -> "PULL_RESP"
      [] id = 4 -> "PULL_ACK"
      [] OTHER -> "UNKNOWN"

\* The step by which udp_receive_loop takes the datagram d off the socket.
ReceiveStep(d) == UdpIgnore(d) \/ UdpPushAck(d) \/ UdpPullAck(d) \/ UdpPullResp(d)

\* C18: a received datagram of fewer than 4 bytes changes no metric and no
\* field of the state; any other adds 1 to udp_received_count and its size to
\* udp_received_bytes, both under the one label of its byte 3, and nothing
\* else; a datagram labelled UNKNOWN changes no field of the state.
C18_ReceivedMetrics ==
    [][(upc = "recv" /\ upc' # "recv") =>
        \A d \in Datagrams(scenario) : ReceiveStep(d) =>
            IF d.size < 4
            THEN met' = <<>> /\ UNCHANGED stateVars
            ELSE /\ met' = <<[name |-> "udp_received_count", type |-> ReceivedLabel(d.b[4]),
                              by |-> 1, body |-> FALSE],
                             [name |-> "udp_received_bytes", type |-> ReceivedLabel(d.b[4]),
                              by |-> d.size, body |-> FALSE]>>
                 /\ ReceivedLabel(d.b[4]) = "UNKNOWN" => UNCHANGED stateVars]_vars

\* A 5-byte datagram with no handler has just been counted as UNKNOWN.
C18_Witness ==
    /\ upc = "check"
    /\ scenario = "keepalive"
    /\ met # <<>>
    /\ met[1].type = "UNKNOWN"
    /\ met[2].by = 5

(* ------------------------------- C19 ------------------------------------ *)

\* The upper-case name of each status.
StatusName ==
    [Ok |-> "OK", Ignored |-> "IGNORED", TooLate |-> "TOO_LATE", TooEarly |-> "TOO_EARLY",
     CollisionPacket |-> "COLLISION_PACKET", CollisionBeacon |-> "COLLISION_BEACON",
     TxFreq |-> "TX_FREQ", TxPower |-> "TX_POWER", GpsUnlocked |-> "GPS_UNLOCKED",
     QueueFull |-> "QUEUE_FULL", InternalError |-> "INTERNAL_ERROR",
     DutyCycleOverflow |-> "DUTY_CYCLE_OVERFLOW"]

\* C19: for every status of the single item of a reply, the error code of the
\* TX_ACK sent is the empty string for OK and the upper-case name of the status
\* otherwise, and the label of the two sent-metrics is TX_ACK_OK exactly when
\* the code is empty and TX_ACK_ERROR_<code> otherwise.
C19_ErrorCodeAndLabel ==
    [][(upc = "poll" /\ upc' = "check") =>
        \A s \in DOMAIN StatusName :
            UdpPollReply([kind |-> "tx_ack", items |-> <<s>>]) =>
                /\ Len(out') = 1
                /\ out'[1].payload.txpk_ack.error
                        = (IF StatusName[s] = "OK" THEN "" ELSE StatusName[s])
                /\ Len(met') = 2
                /\ met'[1].type = met'[2].type
                /\ (met'[1].type = "TX_ACK_OK") <=> (out'[1].payload.txpk_ack.error = "")
                /\ out'[1].payload.txpk_ack.error # "" =>
                        met'[1].type = "TX_ACK_ERROR_" \o StatusName[s]]_vars

\* A TX_ACK for a duty-cycle overflow has just been sent and counted.
C19_Witness ==
    /\ upc = "check"
    /\ Len(out) = 1
    /\ out[1].chan = "udp"
    /\ out[1].payload = [txpk_ack |-> [error |-> "DUTY_CYCLE_OVERFLOW"]]
    /\ Len(met) = 2
    /\ met[1].type = "TX_ACK_ERROR_DUTY_CYCLE_OVERFLOW"

(* ------------------------------- C20 ------------------------------------ *)

\* TRUE when the txpk is one of those that cannot be translated: a modulation
\* and a datarate of different kinds, no imme, tmst or tmms to time the
\* downlink by, or data that is not base64.
Untranslatable(txpk) ==
    \/ txpk.modu = "LORA" /\ txpk.datr.kind = "FSK"
    \/ txpk.modu = "FSK" /\ txpk.datr.kind = "LoRa"
    \/ txpk.imme \in {None, Some(FALSE)} /\ txpk.tmst = None /\ txpk.tmms = None
    \/ ~txpk.data_ok

\* C20: a PULL_RESP that decodes but whose txpk cannot be translated is
\* dropped: the step that receives it sends no command and no TX_ACK, leaves
\* the command socket and the state as they were, and udp_receive_loop goes
\* back to the head of its loop.
C20_UntranslatableDropped ==
    [][(upc = "recv" /\ upc' # "recv") =>
        \A d \in Datagrams(scenario) :
            (/\ d.size >= 4
             /\ d.b[4] = 3
             /\ PullResp_from_bytes(d).ok
             /\ Untranslatable(PullResp_from_bytes(d).v.payload.txpk)
             /\ UdpPullResp(d)) =>
                /\ out' = <<>>
                /\ upc' = "check"
                /\ req_pending' = req_pending
                /\ UNCHANGED stateVars]_vars

\* An untranslatable PULL_RESP has just been dropped, with an earlier command
\* still unanswered.
C20_Witness ==
    /\ upc = "check"
    /\ warned = Some("TxPk to proto error")
    /\ out = <<>>
    /\ req_pending

(* ------------------------------- C21 ------------------------------------ *)

\* TRUE when the uplink up is one of those that cannot be translated to an
\* rxpk: a sub-record, the modulation or its parameters missing, or LR-FHSS.
CannotTranslate(up) ==
    \/ ~up.rx_info
    \/ ~up.tx_info
    \/ up.modu \in {"lrfhss", "no_parameters", "no_modulation"}

\* C21: an uplink that passes the CRC filter but cannot be translated to an
\* rxpk is dropped: the step that handles it sends nothing, changes neither
\* the state nor the metrics, and events_loop goes on to the next event.
C21_UntranslatableUplinkDropped ==
    [][(epc = "next" /\ ~stop_events) => \A e \in Events(scenario) :
        (/\ e.kind = "up"
         /\ CannotTranslate(e)
         /\ e.rx_info => ForwardFlag(e.crc)
         /\ EvUp(e)) =>
            /\ out' = <<>>
            /\ met' = <<>>
            /\ epc' = "next"
            /\ UNCHANGED stateVars]_vars

(* ------------------------------- C22 ------------------------------------ *)

\* C22: whatever imme, tmst and tmms are present, TXPK::to_proto chooses the
\* timing in this order: Immediately when imme is true; else, with a tmst, a
\* delay of 0 s and the 4 big-endian bytes of tmst as context; else, with a
\* tmms, the GPS epoch time of tmms milliseconds; else it returns an error and
\* no downlink frame.
C22_TimingPriority ==
    (cin.call = "TXPK::to_proto" /\ cres # None) =>
        LET t == cin.input
            r == cres[1]
        IN  IF t.imme = Some(TRUE)
            THEN r.ok /\ r.v.timing = [kind |-> "Immediately"]
            ELSE IF t.tmst # None
            THEN /\ r.ok
                 /\ r.v.timing = [kind |-> "Delay", seconds |-> 0, nanos |-> 0]
                 /\ Len(r.v.context) = 4
                 /\ \A i \in 1..4 : r.v.context[i] \in 0..255
                 /\ t.tmst[1] = r.v.context[1] * 16777216 + r.v.context[2] * 65536
                                    + r.v.context[3] * 256 + r.v.context[4]
            ELSE IF t.tmms # None
            THEN /\ r.ok
                 /\ r.v.timing.kind = "GpsEpoch"
                 /\ r.v.timing.nanos \in 0..999999999
                 /\ r.v.timing.nanos % 1000000 = 0
                 /\ r.v.timing.seconds * 1000 + r.v.timing.nanos \div 1000000 = t.tmms[1]
            ELSE ~r.ok /\ ~r.panic

\* A txpk with a false imme, a tmst and a tmms has been translated.
C22_Witness ==
    /\ cin.call = "TXPK::to_proto"
    /\ cin.input.imme = Some(FALSE)
    /\ cin.input.tmst = Some(5000000)
    /\ cin.input.tmms = Some(1234)
    /\ cres # None
    /\ cres[1].ok

(* ------------------------------- C23 ------------------------------------ *)

\* C23: a PULL_DATA whose send failed does not stop pull_data_loop, and the
\* tick after it, when no PULL_ACK came in between, counts it as a miss:
\* missed_acks grows by 1, and the loop goes on to send a new PULL_DATA unless
\* that was one miss too many.
C23_FailedSendIsAMiss ==
    [][/\ (SendStep /\ ~h_pull_ok') => kpc' = "cmp"
       /\ (TickStep /\ h_pull # None /\ ~h_pull_ok /\ h_ack = None) =>
            /\ missed_acks' = missed_acks + 1
            /\ \/ kpc' = "send"
               \/ keepalive_max_failures # 0 /\ missed_acks' > keepalive_max_failures]_vars

(* ------------------------------- C24 ------------------------------------ *)

\* C24 as claimed: when the last PULL_ACK handled before a tick carried the
\* pull_data_token of the time it was handled, the tick finds the two tokens
\* equal and resets missed_acks.
C24_AckSeenByNextTick ==
    [][(TickStep /\ h_ack_ever # None /\ h_ack_cur) => missed_acks' = 0]_vars

\* C24 as amended: when the last PULL_ACK handled since the most recent
\* PULL_DATA was sent carries the token of that PULL_DATA, the tick finds the
\* two tokens equal and resets missed_acks.
C24_AckOfLastPullSeenByNextTick ==
    [][(TickStep /\ h_pull # None /\ h_ack # None /\ h_ack = h_pull) =>
            /\ pull_data_token_acked = pull_data_token
            /\ missed_acks' = 0]_vars

\* A tick has found the second PULL_DATA acknowledged with its token.
C24_Witness ==
    /\ kpc = "send"
    /\ h_prev_pull # None
    /\ h_pull = Some(TokenStep)
    /\ h_ack = h_pull
    /\ pull_data_token_acked = TokenStep
    /\ missed_acks = 0

(* ------------------------------- C25 ------------------------------------ *)

\* C25: PushAck::from_bytes and PullAck::from_bytes return Ok exactly for an
\* input of 4 bytes whose byte 0 is 2 and whose byte 3 is 1 (PUSH_ACK) or 4
\* (PULL_ACK), with the token bytes[1] * 256 + bytes[2], and an error for every
\* other input; so the 4-byte frame built from a token decodes to that token.
C25_AckDecoders ==
    (cin.call \in {"PushAck::from_bytes", "PullAck::from_bytes"} /\ cres # None) =>
        LET d == cin.input
            id == IF cin.call = "PushAck::from_bytes" THEN 1 ELSE 4
            r == cres[1]
        IN  /\ ~r.panic
            /\ r.ok <=> (d.size = 4 /\ d.b[1] = 2 /\ d.b[4] = id)
            /\ r.ok => r.v.random_token = d.b[2] * 256 + d.b[3]
            /\ \A hi \in ByteSamples, lo \in ByteSamples :
                (d.size = 4 /\ d.b = <<2, hi, lo, id>>) =>
                    r.ok /\ r.v.random_token = hi * 256 + lo

\* A 4-byte PUSH_ACK has been decoded to the token 0x81FF.
C25_Witness ==
    /\ cin.call = "PushAck::from_bytes"
    /\ cin.input.size = 4
    /\ cres # None
    /\ cres[1].ok
    /\ cres[1].v.random_token = 33279

(* ------------------------------- C26 ------------------------------------ *)

\* C26: every frame handed to the UDP socket starts with the 12 bytes 2, the
\* high and the low byte of its token, its identifier (0 for the PUSH_DATA of
\* events_loop, 2 for the PULL_DATA of pull_data_loop, 5 for the TX_ACK of
\* udp_receive_loop) and the 8 bytes of the gateway identifier, the same in
\* every frame of every instance; a PULL_DATA has nothing after them.
C26_UpstreamHeader ==
    [][\A i \in 1..Len(out') : out'[i].chan = "udp" =>
        LET h == out'[i].hdr IN
        /\ Len(h) = 12
        /\ h[1] = 2
        /\ SubSeq(h, 5, 12) = <<1, 2, 3, 4, 5, 6, 7, 8>>
        /\ h[4] = (IF kpc' # kpc THEN 2 ELSE IF epc' # epc THEN 0 ELSE 5)
        /\ h[2] * 256 + h[3] = (IF kpc' # kpc THEN pull_data_token'
                                ELSE IF epc' # epc THEN push_data_token'
                                ELSE pull_resp_token[1])
        /\ h[2] \in 0..255
        /\ h[3] \in 0..255
        /\ h[4] = 2 => out'[i].payload = [kind |-> "none"]]_vars

\* A restarted instance has just sent a PULL_DATA with the token 129.
C26_Witness ==
    /\ h_restarted
    /\ kpc = "cmp"
    /\ Len(out) = 1
    /\ out[1].chan = "udp"
    /\ out[1].hdr = <<2, 0, 129, 2, 1, 2, 3, 4, 5, 6, 7, 8>>

(* ------------------------------- C27 ------------------------------------ *)

\* TRUE when the JSON object obj has a member with the key k.
HasKey(obj, k) == \E i \in 1..Len(obj.members) : obj.members[i][1] = k

\* The value of the first member of the JSON object obj with the key k.
ValueOf(obj, k) ==
    obj.members[CHOOSE i \in 1..Len(obj.members) : obj.members[i][1] = k][2]

\* C27: in the JSON of a PUSH_DATA an absent optional is left out and never
\* written as null: without a stat there is no "stat" key, and an rxpk without
\* tmms, codr or lsnr has no key for the absent field.
C27_AbsentOmitted ==
    (cin.call = "PushData::to_bytes" /\ cres # None) =>
        LET pl == cin.input.payload
            j == cres[1].json
        IN  /\ pl.stat = None => ~HasKey(j, "stat")
            /\ \A i \in 1..Len(pl.rxpk) :
                LET rj == ValueOf(j, "rxpk").items[i] IN
                /\ pl.rxpk[i].tmms = None => ~HasKey(rj, "tmms")
                /\ pl.rxpk[i].codr = None => ~HasKey(rj, "codr")
                /\ pl.rxpk[i].lsnr = None => ~HasKey(rj, "lsnr")
                /\ \A m \in 1..Len(rj.members) : rj.members[m][2].t # "null"
            /\ \A m \in 1..Len(j.members) : j.members[m][2].t # "null"

(* ------------------------------- C28 ------------------------------------ *)

\* The stat the protocol gives to a CRC status.
StatOfCrc(crc) ==
    CASE crc = "CRC_OK" -> 1
      [] crc = "BAD_CRC" -> -1
      [] crc = "NO_CRC" -> 0

\* The number written for the key "stat" of the i-th rxpk of the payload pl.
EmittedStat(pl, i) ==
    LET v == ValueOf(ValueOf(PushDataPayload_serialize(pl), "rxpk").items[i], "stat")
    IN  IF v.neg THEN 0 - v.n ELSE v.n

\* C28: the stat of the rxpk of a forwarded uplink is the one of the CRC
\* status of that uplink: 1 for ok, -1 for invalid, 0 for missing.
C28_StatReflectsCrc ==
    [][(epc = "next" /\ ~stop_events) => \A e \in Events(scenario) :
            (e.kind = "up" /\ e.rx_info /\ EvUp(e) /\ out' # <<>>) =>
                \A i \in 1..Len(out'[1].payload.rxpk) :
                    EmittedStat(out'[1].payload, i) = StatOfCrc(e.crc)]_vars

(* ------------------------------- C29 ------------------------------------ *)

\* TRUE when seg is a decimal number: one digit or more, after a '+' or not.
IsDecimal(seg) ==
    LET ds == IF Len(seg) > 0 /\ seg[1] = "+" THEN Tail(seg) ELSE seg
    IN  Len(ds) > 0 /\ \A i \in 1..Len(ds) : IsDigit(ds[i])

\* The number the decimal seg stands for.
DecimalValue(seg) == DecVal(IF seg[1] = "+" THEN Tail(seg) ELSE seg)

\* TRUE when splitting s at its alphabetic characters gives the five
\* segments "", "", sf, "", bw_khz with decimal sf and bw_khz.
LoRaShaped(s) ==
    LET g == SplitAlphabetic(s) IN
    /\ Len(g) = 5
    /\ g[1] = <<>>
    /\ g[2] = <<>>
    /\ g[4] = <<>>
    /\ IsDecimal(g[3])
    /\ IsDecimal(g[5])

\* C29: a datarate string is accepted only when it splits at alphabetic
\* characters into the five segments "", "", sf, "", bw_khz; it then decodes
\* to LoRa(sf, bw_khz * 1000), and every other string is a parse error.
C29_OnlyFiveSegmentStrings ==
    (cin.call = "DataRate::deserialize" /\ cin.input.t = "str" /\ cres # None) =>
        LET g == SplitAlphabetic(cin.input.s) IN
        IF LoRaShaped(cin.input.s)
        THEN cres[1] = Ok(LoRa(DecimalValue(g[3]), DecimalValue(g[5]) * 1000))
        ELSE ~cres[1].ok /\ ~cres[1].panic

(* ------------------------------- C30 ------------------------------------ *)

\* C30: a PULL_RESP whose txpk gives a JSON number as datr decodes with the
\* FSK bitrate of that number (below 2^31 here, so the number itself); when
\* the number is negative or fractional the datagram is a parse error: it is
\* dropped with a warning, nothing is sent, the state stays and
\* udp_receive_loop goes back to the head of its loop.
C30_NumberDatarate ==
    [][(upc = "recv" /\ upc' # "recv") =>
        \A d \in Datagrams(scenario) :
            (/\ d.size >= MinPullResp
             /\ d.b[1] = PROTOCOL_VERSION
             /\ d.b[4] = ID_PULL_RESP
             /\ d.json.kind = "txpk"
             /\ d.json.txpk.modu \in {"LORA", "FSK"}
             /\ d.json.txpk.datr.t = "num"
             /\ UdpPullResp(d)) =>
                LET v == d.json.txpk.datr IN
                IF v.neg \/ v.frac
                THEN /\ ~PullResp_from_bytes(d).ok
                     /\ warned' # None
                     /\ out' = <<>>
                     /\ upc' = "check"
                     /\ req_pending' = req_pending
                     /\ UNCHANGED stateVars
                ELSE /\ PullResp_from_bytes(d).ok
                     /\ PullResp_from_bytes(d).v.payload.txpk.datr = FSK(v.n)]_vars

(* ------------------------------- C31 ------------------------------------ *)

\* C31: push_data_sent counts the PUSH_DATA datagrams sent on the socket and
\* rxfw the uplinks whose datagram was sent: neither counter is incremented
\* for a PUSH_DATA whose socket.send failed.
C31_OnlySentIsCounted ==
    [][/\ push_data_sent' = push_data_sent + 1 => h_push_ok
       /\ rxfw' = rxfw + 1 => h_push_ok]_vars

(* ------------------------------- C32 ------------------------------------ *)

\* C32: with a server that answers every PUSH_DATA with at most one PUSH_ACK
\* echoing its token, the push_data_acked a stats flush takes is never
\* greater than the push_data_sent it took: no stat reports more than 100
\* percent.
C32_AckRatioAtMost100 ==
    [][(scenario = "acks" /\ epc = "st_acked" /\ epc' = "st_send") => pd_acked' <= pd_sent]_vars

(* ------------------------------- C35 ------------------------------------ *)

\* C35: when the server has acknowledged every PUSH_DATA once and all these
\* PUSH_ACKs have been handled, no PUSH_DATA counted in push_data_sent is
\* missing from push_data_acked, also when PUSH_DATA were sent before the
\* PUSH_ACK of an earlier one came.
C35_EveryAckCounted ==
    (/\ scenario = "acks"
     /\ epc = "next"
     /\ upc \in {"check", "recv"}
     /\ h_owed = ZeroOwed) => push_data_acked >= push_data_sent

(* ------------------------------- C33 ------------------------------------ *)

\* C33: a TX_ACK carries the token of the PULL_RESP being handled and is made
\* from the reply to the command of that PULL_RESP: when the reply is read
\* no earlier command is still without its reply, so the reply of a command
\* that missed its deadline is never taken for the reply of a later one.
C33_ReplyOfSameCommand ==
    [][(\E i \in 1..Len(out') : IsTxAck(out'[i])) =>
            /\ h_unread = 1
            /\ h_unread' = 0
            /\ pull_resp_token # None
            /\ TokenIn(out'[1].hdr) = pull_resp_token[1]
            /\ \E reply \in Replies :
                /\ reply.kind = "tx_ack"
                /\ Len(reply.items) = 1
                /\ UdpPollReply(reply)
                /\ out'[1].payload.txpk_ack.error = TxAckError(reply.items[1])]_vars

\* A TX_ACK with the error TOO_LATE has just been sent for the one command
\* that was without its reply, and no command is left without one.
C33_Witness ==
    /\ Len(out) = 1
    /\ IsTxAck(out[1])
    /\ out[1].payload.txpk_ack.error = "TOO_LATE"
    /\ h_unread = 0
    /\ ~req_pending
    /\ upc = "check"

(* ------------------------------- C34 ------------------------------------ *)

\* C34: from the second tick of an instance on, a tick resets missed_acks to
\* 0 only if a PULL_ACK with the token of the most recent PULL_DATA was
\* received after that PULL_DATA was sent.
C34_ResetOnlyOnAck ==
    [][(TickStep /\ h_pull # None /\ missed_acks' = 0) => h_pull_acked]_vars

(* ------------------------------- C36 ------------------------------------ *)

\* C36: with keepalive_max_failures = N > 0, an instance that has received no
\* PULL_ACK and drawn no token 0 broadcasts Stop at the tick that follows its
\* PULL_DATA number N + 1, and at no earlier tick: it sends exactly N + 1
\* PULL_DATA and stops on tick N + 2.  Every instance, the first as a
\* restarted one, starts with all counters, both tokens and missed_acks 0.
C36_StopAfterNPlusOne ==
    [][/\ (TickStep /\ keepalive_max_failures > 0 /\ h_silent >= 0) =>
            /\ h_silent <= keepalive_max_failures + 1
            /\ missed_acks' = h_silent
            /\ (kpc' = "done") <=> (h_silent = keepalive_max_failures + 1)
            /\ (kpc' = "done") => (stop_udp' /\ stop_events')
            /\ (kpc' # "done") => (kpc' = "send" /\ UNCHANGED stopVars)
       /\ (SendStep /\ h_silent' >= 0) => h_silent' = h_silent + 1 /\ Len(out') = 1
       /\ (spc = "setup" /\ spc' = "join_udp") =>
            /\ push_data_token' = 0 /\ push_data_sent' = 0 /\ push_data_acked' = 0
            /\ pull_data_token' = 0 /\ pull_data_token_acked' = 0 /\ rxfw' = 0
            /\ missed_acks' = 0 /\ h_silent' = 0
            /\ kpc' = "cmp"]_vars

\* A restarted instance that heard nothing has sent its PULL_DATA number
\* keepalive_max_failures + 1 and then broadcast Stop.
C36_Witness ==
    /\ h_restarted
    /\ kpc = "done"
    /\ keepalive_max_failures > 0
    /\ h_silent = keepalive_max_failures + 1
    /\ stop_udp

(* ------------------------------- C37 ------------------------------------ *)

\* C37: in every state the rxfw of the stats emitted so far plus the rxfw
\* counter make up the number of increments of rxfw: no increment is outside
\* both.
C37_AllInCounterOrStats == h_unrep = 0

\* C37 as amended: the increments that are neither in the counter nor in an
\* emitted stat are those events_stats took with get_and_reset_rxfw for the
\* stat it is building and has not handed to the socket yet; none is lost
\* and none is in two stats.
C37_CountedOnce ==
    h_unrep = (IF epc \in {"st_sent", "st_acked", "st_send"} THEN stat_rxfw ELSE 0)

\* A stat with rxfw 2 has just been handed to the socket; the counter was
\* reset for it and a further uplink has not been counted yet.
C37_Witness ==
    /\ epc = "st_incr"
    /\ Len(out) = 1
    /\ IsStatFrame(out[1])
    /\ out[1].payload.stat[1].rxfw = 2
    /\ rxfw = 0
    /\ h_unrep = 0


(* ------------------------------- C38 ------------------------------------ *)

\* C38: for every txpk TXPK::to_proto translates, the context of the downlink
\* frame is the 4 big-endian bytes of tmst exactly when the timing chosen is
\* Delay, and is empty when the timing is Immediately or GpsEpoch, also for a
\* txpk with a true imme and a tmst.
\* The code takes the context from tmst alone, after the timing is chosen: a
\* txpk with a true imme and a tmst gets the timing Immediately and the bytes of
\* tmst as context.
C38_ContextOnlyForDelay ==
    (cin.call = "TXPK::to_proto" /\ cres # None /\ cres[1].ok) =>
        LET t == cin.input
            r == cres[1].v
        IN  IF r.timing.kind = "Delay"
            THEN t.tmst # None /\ r.context = U32ToBeBytes(t.tmst[1])
            ELSE r.context = <<>>


(* ------------------------------- C39 ------------------------------------ *)

IsPullData(f) == f.chan = "udp" /\ f.hdr[4] = ID_PULL_DATA

\* C39: once pull_data_loop has broadcast Stop, and until start sets up the
\* next instance, no PULL_DATA is sent; udp_receive_loop takes at most one more
\* datagram from the socket, returns at its next check of the signal and does
\* nothing after; events_loop begins no event: it finishes the one it is
\* handling, and at its next round it returns, the event that round has read
\* being dropped with nothing sent, no metric and no counter changed.
C39_NothingNewAfterStop ==
    [][(kpc = "done" /\ spc # "setup") =>
        /\ kpc' = "done"
        /\ \A i \in 1..Len(out') : ~IsPullData(out'[i])
        /\ h_late' <= 1
        /\ (upc = "check" /\ UdpStep) => upc' = "done"
        /\ upc = "done" => (upc' = "done" /\ h_late' = h_late)
        /\ (epc = "next" /\ EvStep) =>
            /\ epc' = "done"
            /\ out' = <<>>
            /\ met' = <<>>
            /\ UNCHANGED <<stateVars, stat_rxfw, pd_sent, pd_acked, h_fwd, h_unrep>>
        /\ (epc \notin {"next", "done"} /\ EvStep) => ~h_discarded'
        /\ epc = "done" => UNCHANGED <<evVars, h_discarded>>]_vars

\* The three threads of an instance have returned after a Stop: udp_receive_loop
\* has handled one datagram since the broadcast, and events_loop has dropped
\* an uplink it had read, after forwarding another.
C39_Witness ==
    /\ scenario = "stop"
    /\ kpc = "done"
    /\ upc = "done"
    /\ epc = "done"
    /\ h_late = 1
    /\ h_discarded
    /\ h_fwd = 1
    /\ push_data_sent = 1
    /\ rxfw = 1

====
